---------------------------- MODULE Spec2Model ----------------------------
(***************************************************************************)
(* Model of the bandcamp-downloader consolidation pipeline                 *)
(* (commands/bandcamp_mails.py, commands/bandcamp_reports.py) and of the   *)
(* background-run service (api/services/utility_service.py).               *)
(*                                                                         *)
(* Text is a sequence of one-element tokens: a token is a character, or a  *)
(* whole word that the code never looks inside (a date literal, a name).   *)
(* File content is kept as written on disk ("bytes"): a token is decoded   *)
(* by Decode under the encoding tried.                                     *)
(***************************************************************************)
EXTENDS Integers, Sequences, FiniteSets, TLC

(***************************************************************************)
(* Bounds of the model.                                                    *)
(***************************************************************************)
\* most discovered files of one run
MaxFiles == 2
\* most data rows over all files of one run
MaxRows == 3
\* last value of the wall clock
MaxNow == 5

(***************************************************************************)
(* Text helpers: str.strip, str.lower.                                     *)
(***************************************************************************)
Whitespace == {" ", "\t"}

RECURSIVE LStrip(_)
LStrip(s) ==
    IF s = <<>> THEN <<>>
    ELSE IF Head(s) \in Whitespace THEN LStrip(Tail(s)) ELSE s

RECURSIVE RStrip(_)
RStrip(s) ==
    IF s = <<>> THEN <<>>
    ELSE IF s[Len(s)] \in Whitespace THEN RStrip(SubSeq(s, 1, Len(s) - 1)) ELSE s

Strip(s) == RStrip(LStrip(s))

LowerChar(c) ==
    CASE c = "A" -> "a"
      [] c = "B" -> "b"
      [] OTHER -> c

Lower(s) == [i \in 1..Len(s) |-> LowerChar(s[i])]

(***************************************************************************)
(* Encodings: bytes on disk to text.  "e1" is the single byte 0xE9 (not    *)
(* valid UTF-8, e-acute in Latin-1); "e2" is the two bytes 0xC3 0xA9       *)
(* (e-acute in UTF-8, two characters in Latin-1).  Everything else is      *)
(* ASCII.                                                                  *)
(***************************************************************************)
encodings_to_try == <<"utf-8-sig", "utf-8", "latin-1", "cp1252">>

DecodableToken(enc, b) ==
    IF enc \in {"utf-8-sig", "utf-8"} THEN b # "e1" ELSE TRUE

DecodeToken(enc, b) ==
    IF enc \in {"utf-8-sig", "utf-8"}
    THEN (IF b = "e2" THEN <<"e-acute">> ELSE <<b>>)
    ELSE (IF b = "e1" THEN <<"e-acute">>
          ELSE IF b = "e2" THEN <<"A-tilde", "copyright">> ELSE <<b>>)

RECURSIVE DecodeCell(_, _)
DecodeCell(enc, cell) ==
    IF cell = <<>> THEN <<>>
    ELSE DecodeToken(enc, Head(cell)) \o DecodeCell(enc, Tail(cell))

DecodableCell(enc, cell) == \A i \in 1..Len(cell) : DecodableToken(enc, cell[i])

DecodeRow(enc, row) == [i \in 1..Len(row) |-> DecodeCell(enc, row[i])]

DecodableRow(enc, row) == \A i \in 1..Len(row) : DecodableCell(enc, row[i])

(***************************************************************************)
(* datetime.strptime(s, '%b %d %Y %I:%M %p UTC') on the date literals of   *)
(* the model: the value is the literal's place on the time line, in the    *)
(* unit of the wall clock.  Any other text raises ValueError.              *)
(***************************************************************************)
DateLiterals == {"Jan 01 2025 10:00 AM UTC", "Jan 05 2025 10:00 AM UTC",
                 "Jan 05 2025 04:00 PM UTC"}

DateValue(tok) ==
    CASE tok = "Jan 01 2025 10:00 AM UTC" -> 1
      [] tok = "Jan 05 2025 10:00 AM UTC" -> 2
      [] tok = "Jan 05 2025 04:00 PM UTC" -> 4

StrptimeOk(s) == Len(s) = 1 /\ s[1] \in DateLiterals

Strptime(s) == DateValue(s[1])

(***************************************************************************)
(* int(s): optional surrounding whitespace, optional sign, decimal digits. *)
(***************************************************************************)
Digits == {"0", "1", "2", "3", "4", "5", "6", "7", "8", "9"}

DigitValue(c) ==
    CASE c = "0" -> 0 [] c = "1" -> 1 [] c = "2" -> 2 [] c = "3" -> 3
      [] c = "4" -> 4 [] c = "5" -> 5 [] c = "6" -> 6 [] c = "7" -> 7
      [] c = "8" -> 8 [] c = "9" -> 9

RECURSIVE Decimal(_)
Decimal(s) ==
    IF s = <<>> THEN 0
    ELSE 10 * Decimal(SubSeq(s, 1, Len(s) - 1)) + DigitValue(s[Len(s)])

IntOk(s) ==
    LET t == Strip(s)
        u == IF t # <<>> /\ t[1] \in {"+", "-"} THEN Tail(t) ELSE t
    IN  u # <<>> /\ \A i \in 1..Len(u) : u[i] \in Digits

IntOf(s) ==
    LET t == Strip(s)
    IN  IF t[1] = "-" THEN 0 - Decimal(Tail(t))
        ELSE IF t[1] = "+" THEN Decimal(Tail(t))
        ELSE Decimal(t)


(***************************************************************************)
(* Program constants.                                                      *)
(***************************************************************************)
full_expected_headers ==
    << <<"email">>, <<"fullname">>, <<"firstname">>, <<"lastname">>,
       <<"date added">>, <<"country">>, <<"postal code">>, <<"num purchases">> >>

consolidated_filename == <<"consolidated_bandcamp_mailing_list", ".csv">>

(***************************************************************************)
(* State.                                                                  *)
(***************************************************************************)
VARIABLES
    mails_dir,        \* files of <outputs>/mails, in glob order
    csv_files,        \* consolidate_csv_files: the discovered files
    pc,               \* consolidate_csv_files: position in the function
    fi,               \* index of the file being processed
    records,          \* records returned by process_single_csv for file fi
    ri,               \* index of the next record to fold
    email_data,       \* the merge map, in dict insertion order
    files_processed,  \* consolidate_csv_files: files_processed
    clock,            \* the wall clock read by datetime.now()
    folded,           \* the rows folded so far with the values parsed from them
    flat,             \* the consolidated flat file: lines, or <<>> when absent
    db,               \* the rows of table mailing_lists
    run,              \* 1 in the first run over mails_dir, 2 in the second
    first_flat,       \* flat file as the first run left it
    first_db,         \* table as the first run left it
    utility_status,   \* UtilityService.utility_status
    threads,          \* the background threads started, with their position
    main_pc,          \* main: position in the function ("none": not called)
    utility,          \* main: "mails" or "reports"
    consolidate_only, \* CONFIG['CONSOLIDATE_ONLY']
    outputs_exists,   \* the outputs directory exists
    revenues_dir,     \* files of <outputs>/revenues, in glob order
    rev_files,        \* revenue consolidate_csv_files: the discovered files
    has_artists,      \* artists.py can be imported
    artists,          \* artists.py: the number of artists
    force,            \* CONFIG['FORCE']
    artist,           \* main: index of the next artist to download
    downloads,        \* download_file calls made
    mails_dir0,       \* <outputs>/mails when main was called
    revenues_dir0,    \* <outputs>/revenues when main was called
    platform,         \* sys.platform
    path,             \* sanitize_path: _path
    new_path,         \* sanitize_path: the value returned, <<"unset">> before
    max_url_attempts, \* CONFIG['MAX_URL_ATTEMPTS']
    dl_pc,            \* download_file: position ("none": not called)
    attempt,          \* download_file: _attempt of the current call
    to_is_dir,        \* download_file: _to of the current call is a directory name
    requests,         \* HTTP requests issued for the current URL
    saved,            \* the response of the current URL was saved
    rev_pc,           \* revenue consolidate_csv_files: position ("off": not called)
    year_month,       \* datetime.now().strftime('%Y-%m') of the run
    date_range,       \* <<CONFIG['DATE_BEGIN'], CONFIG['DATE_END']>> of the run
    reports_exists,   \* the directory <outputs>/reports exists
    rev_flat,         \* consolidated_bandcamp_reports_<ym>.csv, per year-month
    rev_db,           \* table revenue_reports of each store, per year-month
    rev_fi,           \* index of the revenue file being processed
    rev_encoding,     \* the encoding the file was opened with
    rev_ri,           \* number of data lines of the file read so far
    db_rows,          \* db_rows of the file being processed
    total_rows,       \* total_rows
    rev_files_processed, \* files_processed of the revenue consolidation
    total_db_rows,    \* total_db_rows
    rev_result,       \* what the call returned: "None", "path", "running"
    incorporated,     \* the files that reached files_processed += 1
    rev_run,          \* 1 in the first revenue run, 2 in the second
    rev_flat0,        \* rev_flat when the run began
    rev_db0,          \* rev_db when the run began
    out_fault         \* the output operation that failed in the run, or "none"

pipeVars == <<mails_dir, csv_files, pc, fi, records, ri, email_data,
              files_processed, clock, folded, flat, db, run, first_flat, first_db>>

svcVars == <<utility_status, threads>>

mainVars == <<main_pc, utility, consolidate_only, outputs_exists, revenues_dir,
              rev_files, has_artists, artists, force, artist, downloads,
              mails_dir0, revenues_dir0>>

pathVars == <<platform, path, new_path>>

dlVars == <<max_url_attempts, dl_pc, attempt, to_is_dir, requests, saved>>

revRest == <<rev_pc, year_month, date_range, rev_flat, rev_db, rev_fi,
             rev_encoding, rev_ri, db_rows, total_rows, rev_files_processed,
             total_db_rows, rev_result, incorporated, rev_run, rev_flat0, rev_db0,
             out_fault>>

revVars == <<reports_exists, revRest>>

extVars == <<pathVars, dlVars, revVars>>

vars == <<pipeVars, svcVars, mainVars, extVars>>

UtilityTypes == {"mails", "reports"}

\* utility_status as the class body sets it (lines 19-32)
SvcIdle ==
    /\ utility_status = [u \in UtilityTypes |->
                           [running |-> FALSE, completed |-> FALSE,
                            pdf_filename |-> "None", output_directory |-> "None"]]
    /\ threads = <<>>

\* main is not running: consolidate_csv_files is called on its own
MainIdle ==
    /\ main_pc = "none"
    /\ utility = "mails"
    /\ consolidate_only = TRUE
    /\ outputs_exists = TRUE
    /\ revenues_dir = <<>>
    /\ rev_files = <<>>
    /\ has_artists = TRUE
    /\ artists = 0
    /\ force = FALSE
    /\ artist = 0
    /\ downloads = 0
    /\ mails_dir0 = <<>>
    /\ revenues_dir0 = <<>>

\* CONFIG['MAX_URL_ATTEMPTS'], and the default of --max-download-attempts
MAX_URL_ATTEMPTS == 5

\* sanitize_path is not called
PathIdle ==
    /\ platform = <<"l", "i", "n", "u", "x">>
    /\ path = <<>>
    /\ new_path = <<"unset">>

\* CONFIG as the module sets it (line 38); download_file is not called
DlIdle ==
    /\ max_url_attempts = MAX_URL_ATTEMPTS
    /\ dl_pc = "none"
    /\ attempt = 0
    /\ to_is_dir = TRUE
    /\ requests = 0
    /\ saved = FALSE

YearMonths == {"2025-01", "2025-02"}

\* a file that does not exist
NoFile == [exists |-> FALSE, lines |-> <<>>]

\* a store that does not exist
NoStore == [exists |-> FALSE, rows |-> <<>>]

\* the locals of the revenue consolidate_csv_files before the call
RevLocals ==
    /\ rev_fi = 0
    /\ rev_encoding = "none"
    /\ rev_ri = 0
    /\ db_rows = <<>>
    /\ total_rows = 0
    /\ rev_files_processed = 0
    /\ total_db_rows = 0
    /\ rev_result = "running"
    /\ incorporated = {}

\* the revenue consolidation is not called, and has left nothing
RevIdle ==
    /\ rev_pc = "off"
    /\ year_month = "2025-01"
    /\ date_range = <<"2025-01-01", "2025-01-31">>
    /\ reports_exists = FALSE
    /\ rev_flat = [m \in YearMonths |-> NoFile]
    /\ rev_db = [m \in YearMonths |-> NoStore]
    /\ rev_run = 1
    /\ rev_flat0 = rev_flat
    /\ rev_db0 = rev_db
    /\ out_fault = "none"
    /\ RevLocals

ExtIdle == PathIdle /\ DlIdle /\ RevIdle

(***************************************************************************)
(* get_csv_files: glob 'mailing_list*.csv' minus the consolidated output.  *)
(* A file name is its tokens: <<prefix, ..., extension>>.                  *)
(***************************************************************************)
MatchesPattern(name) ==
    Len(name) >= 2 /\ name[1] = "mailing_list" /\ name[Len(name)] = ".csv"

IsConsolidatedName(name) ==
    Len(name) >= 1 /\ name[1] = "consolidated_bandcamp_mailing_list"

RECURSIVE SelectFiles(_)
SelectFiles(files) ==
    IF files = <<>> THEN <<>>
    ELSE LET f == Head(files)
         IN  (IF MatchesPattern(f.name) /\ ~IsConsolidatedName(f.name)
              THEN <<f>> ELSE <<>>) \o SelectFiles(Tail(files))

get_csv_files(dir) == SelectFiles(dir)

(***************************************************************************)
(* process_single_csv.  A file is [name, readable, lines, buffered]:       *)
(* lines[1] is the header line, buffered the number of data rows the       *)
(* reader hands out before the text layer decodes the chunk that holds the *)
(* first undecodable byte.                                                 *)
(***************************************************************************)
Min(a, b) == IF a < b THEN a ELSE b

\* dict(zip(header, row)): pairs up to the shorter length, a repeated key
\* keeps its last value
ZipDict(header, row) ==
    LET n == Min(Len(header), Len(row))
    IN  [h \in {header[i] : i \in 1..n} |->
            row[CHOOSE i \in 1..n :
                   header[i] = h /\ \A j \in 1..n : header[j] = h => j <= i]]

\* any(cell.strip() for cell in row)
NonBlank(row) == \E i \in 1..Len(row) : Strip(row[i]) # <<>>

\* index of the first line the encoding cannot decode, 0 when it decodes all
FirstBad(enc, lines) ==
    IF \A i \in 1..Len(lines) : DecodableRow(enc, lines[i]) THEN 0
    ELSE CHOOSE i \in 1..Len(lines) :
            /\ ~DecodableRow(enc, lines[i])
            /\ \A j \in 1..(i - 1) : DecodableRow(enc, lines[j])

\* the records appended while reading data rows 1..n under enc
RECURSIVE RowsRead(_, _, _)
RowsRead(enc, lines, n) ==
    IF n = 0 THEN <<>>
    ELSE LET row == DecodeRow(enc, lines[n + 1])
             header == DecodeRow(enc, lines[1])
         IN  RowsRead(enc, lines, n - 1) \o
             (IF NonBlank(row) THEN <<ZipDict(header, row)>> ELSE <<>>)

\* the loop over encodings_to_try, from attempt k on, with the records
\* appended so far
RECURSIVE TryEncodings(_, _, _)
TryEncodings(file, k, recs) ==
    IF k > Len(encodings_to_try) THEN [raised |-> TRUE, records |-> <<>>]
    ELSE LET enc == encodings_to_try[k]
             bad == FirstBad(enc, file.lines)
             got == IF bad <= 1 THEN 0 ELSE Min(file.buffered, bad - 2)
         IN  IF file.lines = <<>> THEN [raised |-> FALSE, records |-> <<>>]
             ELSE IF bad = 0
             THEN [raised |-> FALSE,
                   records |-> recs \o
                               RowsRead(enc, file.lines, Len(file.lines) - 1)]
             ELSE TryEncodings(file, k + 1,
                               recs \o RowsRead(enc, file.lines, got))

process_single_csv(file) ==
    IF ~file.readable THEN [raised |-> TRUE, records |-> <<>>]
    ELSE TryEncodings(file, 1, <<>>)


(***************************************************************************)
(* consolidate_csv_files: the loop body for one record.                    *)
(***************************************************************************)
\* row_dict.get(h, '')
Get(row_dict, h) == IF h \in DOMAIN row_dict THEN row_dict[h] ELSE <<>>

\* [row_dict.get(h, '') for h in full_expected_headers]
ProjectRow(row_dict) ==
    [i \in 1..Len(full_expected_headers) |-> Get(row_dict, full_expected_headers[i])]

IdentityNoStrip(cell) == Lower(cell)

\* row[0].strip().lower()
Identity(cell) == Lower(Strip(cell))

\* datetime.strptime(row[4].strip(), ...), datetime.now() on ValueError
ParseDate(cell, now) ==
    IF StrptimeOk(Strip(cell)) THEN Strptime(Strip(cell)) ELSE now

\* int(row[7]) if row[7].strip() else 0, 0 on ValueError
ParsePurchases(cell) ==
    IF Strip(cell) # <<>> /\ IntOk(cell) THEN IntOf(cell) ELSE 0

ReplacesLater(parsed_date, existing_date) == parsed_date > existing_date

ReplacesOrEqual(parsed_date, existing_date) == parsed_date <= existing_date

\* parsed_date < existing_data['parsed_date']
Replaces(parsed_date, existing_date) == parsed_date < existing_date

HasKey(data, email) == \E i \in 1..Len(data) : data[i].email = email

KeyIndex(data, email) == CHOOSE i \in 1..Len(data) : data[i].email = email

MergeRowDropTotal(data, email, row, parsed_date, num) ==
    IF HasKey(data, email)
    THEN LET i == KeyIndex(data, email)
         IN  IF Replaces(parsed_date, data[i].parsed_date)
             THEN [data EXCEPT ![i] =
                      [email |-> email, record |-> row, parsed_date |-> parsed_date,
                       total_purchases |-> num]]
             ELSE [data EXCEPT ![i].total_purchases = @ + num]
    ELSE Append(data, [email |-> email, record |-> row,
                       parsed_date |-> parsed_date, total_purchases |-> num])

MergeRowKeepTotal(data, email, row, parsed_date, num) ==
    IF HasKey(data, email)
    THEN LET i == KeyIndex(data, email)
         IN  IF Replaces(parsed_date, data[i].parsed_date)
             THEN [data EXCEPT ![i] =
                      [email |-> email, record |-> row, parsed_date |-> parsed_date,
                       total_purchases |-> data[i].total_purchases + num]]
             ELSE data
    ELSE Append(data, [email |-> email, record |-> row,
                       parsed_date |-> parsed_date, total_purchases |-> num])

\* the if/else on 'email in email_data'; the dict keeps a key's first place
MergeRow(data, email, row, parsed_date, num) ==
    IF HasKey(data, email)
    THEN LET i == KeyIndex(data, email)
         IN  IF Replaces(parsed_date, data[i].parsed_date)
             THEN [data EXCEPT ![i] =
                      [email |-> email, record |-> row, parsed_date |-> parsed_date,
                       total_purchases |-> data[i].total_purchases + num]]
             ELSE [data EXCEPT ![i].total_purchases = @ + num]
    ELSE Append(data, [email |-> email, record |-> row,
                       parsed_date |-> parsed_date, total_purchases |-> num])

(***************************************************************************)
(* write_consolidated_csv.                                                 *)
(***************************************************************************)
DigitText(d) ==
    CASE d = 0 -> "0" [] d = 1 -> "1" [] d = 2 -> "2" [] d = 3 -> "3"
      [] d = 4 -> "4" [] d = 5 -> "5" [] d = 6 -> "6" [] d = 7 -> "7"
      [] d = 8 -> "8" [] d = 9 -> "9"

RECURSIVE NatText(_)
NatText(n) ==
    IF n < 10 THEN <<DigitText(n)>>
    ELSE Append(NatText(n \div 10), DigitText(n % 10))

\* str(total_purchases)
IntText(n) == IF n < 0 THEN <<"-">> \o NatText(0 - n) ELSE NatText(n)

\* sorted(..., key=parsed_date): stable, ascending
RECURSIVE InsertSorted(_, _)
InsertSorted(sorted, e) ==
    IF sorted = <<>> THEN <<e>>
    ELSE IF Head(sorted).parsed_date <= e.parsed_date
         THEN <<Head(sorted)>> \o InsertSorted(Tail(sorted), e)
         ELSE <<e>> \o sorted

RECURSIVE SortByDate(_)
SortByDate(data) ==
    IF data = <<>> THEN <<>>
    ELSE InsertSorted(SortByDate(SubSeq(data, 1, Len(data) - 1)), data[Len(data)])

FinalRowKeepCount(e) == [e.record EXCEPT ![1] = e.email]

\* lines 357-359: the winning row with the total and the identity put in
FinalRow(e) ==
    [[e.record EXCEPT ![8] = IntText(e.total_purchases)] EXCEPT ![1] = e.email]

write_consolidated_csv(headers, data) ==
    LET sorted_emails == SortByDate(data)
    IN  <<headers>> \o [i \in 1..Len(sorted_emails) |-> FinalRow(sorted_emails[i])]

(***************************************************************************)
(* insert_mailing_data: INSERT OR REPLACE under UNIQUE(email, source_file). *)
(***************************************************************************)
\* os.path.basename of a file of the directory: the name's tokens
RECURSIVE JoinNames(_)
JoinNames(files) ==
    IF files = <<>> THEN <<>>
    ELSE IF Len(files) = 1 THEN files[1].name
    ELSE files[1].name \o <<", ">> \o JoinNames(Tail(files))

\* int(record[7]) if record[7] and record[7].strip() else 0 raises ValueError
InsertRaises(e) == Strip(e.record[8]) # <<>> /\ ~IntOk(e.record[8])

StoreRow(e, source_file) ==
    [email |-> e.email, fullname |-> e.record[2], firstname |-> e.record[3],
     lastname |-> e.record[4], date_added |-> e.record[5],
     country |-> e.record[6], postal_code |-> e.record[7],
     num_purchases |-> ParsePurchases(e.record[8]),
     total_purchases |-> e.total_purchases, source_file |-> source_file]

UpsertByEmail(table, r) == {x \in table : x.email # r.email} \cup {r}

\* INSERT OR REPLACE under UNIQUE(email, source_file) (lines 383, 425-427)
Upsert(table, r) ==
    {x \in table : ~(x.email = r.email /\ x.source_file = r.source_file)} \cup {r}

RECURSIVE InsertAll(_, _, _)
InsertAll(table, data, source_file) ==
    IF data = <<>> THEN table
    ELSE InsertAll(IF InsertRaises(Head(data)) THEN table
                   ELSE Upsert(table, StoreRow(Head(data), source_file)),
                   Tail(data), source_file)

insert_mailing_data(table, data, source_files) ==
    InsertAll(table, data, JoinNames(source_files))


(***************************************************************************)
(* Inputs: the mailing-list files a run can find.                          *)
(***************************************************************************)
Row(email, name, date, num) ==
    <<email, name, <<>>, <<>>, date, <<"FR">>, <<>>, num>>

RowPool ==
    { Row(<<"a">>, <<"Ann">>, <<"Jan 01 2025 10:00 AM UTC">>, <<"3">>),
      Row(<<"a">>, <<"Bad">>, <<"garbage">>, <<"1">>),
      Row(<<"A", " ">>, <<"Late">>, <<"Jan 05 2025 04:00 PM UTC">>, <<" ", "2">>),
      Row(<<" ">>, <<"Nobody">>, <<"Jan 01 2025 10:00 AM UTC">>, <<"3">>),
      Row(<<"b">>, <<"Bob">>, <<"Jan 05 2025 10:00 AM UTC", " ">>, <<"x">>) }

FileNames ==
    << <<"mailing_list", "-a", ".csv">>, <<"mailing_list", "-b", ".csv">>,
       <<"mailing_list", "-c", ".csv">>, <<"mailing_list", "-d", ".csv">> >>

SeqsUpTo(S, n) == UNION {[1..k -> S] : k \in 0..n}

\* the ways to cut a sequence of len rows into n consecutive slices
Cuts(len, n) ==
    {c \in [0..n -> 0..len] :
        c[0] = 0 /\ c[n] = len /\ \A i \in 1..n : c[i - 1] <= c[i]}

\* n files holding the rows in order; a file that cannot be opened, or is
\* empty (no header line), holds none of them
KindsOf(c, n) ==
    {k \in [1..n -> {"ok", "unreadable"}] :
        \A i \in 1..n : k[i] # "ok" => c[i] = c[i - 1]}

DirOf(rows, n, c, kind) ==
    [i \in 1..n |->
        [name |-> FileNames[i],
         readable |-> kind[i] # "unreadable",
         lines |-> IF kind[i] = "empty" THEN <<>>
                   ELSE <<full_expected_headers>> \o
                        SubSeq(rows, c[i - 1] + 1, c[i]),
         buffered |-> 0]]

NowStart == DateValue("Jan 05 2025 10:00 AM UTC") + 1

Init ==
    /\ \E n \in 0..MaxFiles :
         \E rows \in (IF n = 0 THEN {<<>>} ELSE SeqsUpTo(RowPool, MaxRows)) :
            \E c \in Cuts(Len(rows), n) :
               \E kind \in KindsOf(c, n) :
                  mails_dir = DirOf(rows, n, c, kind)
    /\ csv_files = <<>>
    /\ pc = "idle"
    /\ fi = 0
    /\ records = <<>>
    /\ ri = 0
    /\ email_data = <<>>
    /\ files_processed = 0
    /\ clock = NowStart
    /\ folded = <<>>
    /\ flat = <<>>
    /\ db = {}
    /\ run = 1
    /\ first_flat = <<>>
    /\ first_db = {}
    /\ SvcIdle
    /\ ExtIdle
    /\ MainIdle

(***************************************************************************)
(* The directories under <outputs>: mails/ and revenues/ hold the source   *)
(* files, reports/ holds what the consolidations write.                    *)
(***************************************************************************)
\* bandcamp_mails.py line 448, bandcamp_reports.py lines 455 and 470
MailsSubdir == "mails"

\* a discovery that lists the directory the runs write to
ReportsAsSource == "reports"

RevenuesSubdir == "revenues"

ReportsSubdir == "reports"

MailFlatName == <<"consolidated_bandcamp_mailing_list", ".csv">>

MailDbName == <<"bandcamp_mailing_lists", ".db">>

RevFlatName(m) == <<"consolidated_bandcamp_reports_", m, ".csv">>

RevDbName(m) == <<"bandcamp_revenue_reports_", m, ".db">>

\* a file of reports/ as a directory listing shows it
OutputFile(name, lines) ==
    [name |-> name, valid |-> TRUE, readable |-> TRUE, lines |-> lines,
     buffered |-> 0]

\* the files the revenue consolidation has written for month m
RevOutputs(m) ==
    (IF rev_flat[m].exists
     THEN <<OutputFile(RevFlatName(m), rev_flat[m].lines)>> ELSE <<>>)
    \o (IF rev_db[m].exists THEN <<OutputFile(RevDbName(m), <<>>)>>
        ELSE <<>>)

\* the files of reports/
ReportsListing ==
    (IF flat # <<>>
     THEN <<OutputFile(MailFlatName, flat), OutputFile(MailDbName, <<>>)>>
     ELSE <<>>)
    \o RevOutputs("2025-01") \o RevOutputs("2025-02")

\* glob.glob over a directory of <outputs>
ListDir(subdir) ==
    IF subdir = "mails" THEN mails_dir
    ELSE IF subdir = "revenues" THEN revenues_dir
    ELSE ReportsListing

(***************************************************************************)
(* consolidate_csv_files, step by step.                                    *)
(***************************************************************************)
\* lines 448-462: discovery; no file found returns at once
Discover ==
    /\ pc = "idle"
    /\ csv_files' = get_csv_files(ListDir(MailsSubdir))
    /\ pc' = IF csv_files' = <<>> THEN "nofiles" ELSE "read"
    /\ fi' = 1
    /\ email_data' = <<>>
    /\ files_processed' = 0
    /\ folded' = <<>>
    /\ records' = <<>>
    /\ ri' = 0
    /\ UNCHANGED <<mails_dir, clock, flat, db, run, first_flat, first_db>>
    /\ UNCHANGED <<svcVars, mainVars, extVars>>

\* where the loop over csv_files goes after file i is finished
AfterFile(i) == IF i >= Len(csv_files) THEN "write_flat" ELSE "read"

OnReadErrorBreak(i) == "write_flat"

\* lines 512-515: except Exception: log, continue
OnReadError(i) == AfterFile(i)

\* lines 464-467 and 512-515: read one file; an exception skips the file
ReadFile ==
    /\ pc = "read"
    /\ LET res == process_single_csv(csv_files[fi])
       IN  IF res.raised
           THEN /\ pc' = OnReadError(fi)
                /\ fi' = fi + 1
                /\ UNCHANGED <<records, ri, files_processed>>
           ELSE /\ files_processed' = files_processed + 1
                /\ records' = res.records
                /\ IF res.records = <<>>
                   THEN pc' = AfterFile(fi) /\ fi' = fi + 1 /\ ri' = 0
                   ELSE pc' = "fold" /\ fi' = fi /\ ri' = 1
    /\ UNCHANGED <<mails_dir, csv_files, email_data, clock, folded, flat, db,
                   run, first_flat, first_db>>
    /\ UNCHANGED <<svcVars, mainVars, extVars>>

\* lines 469-506: fold one record into email_data
FoldRow ==
    /\ pc = "fold"
    /\ LET row == ProjectRow(records[ri])
           email == Identity(row[1])
           malformed == ~StrptimeOk(Strip(row[5]))
       IN  /\ IF email = <<>>
              THEN UNCHANGED <<email_data, clock, folded>>
              ELSE \E now \in clock..Min(clock + 1, MaxNow) :
                     LET parsed_date == ParseDate(row[5], now)
                         num_purchases == ParsePurchases(row[8])
                     IN  /\ clock' = IF malformed THEN now ELSE clock
                         /\ email_data' = MergeRow(email_data, email, row,
                                                   parsed_date, num_purchases)
                         /\ folded' = Append(folded,
                                 [email |-> email, row |-> row,
                                  parsed_date |-> parsed_date,
                                  num_purchases |-> num_purchases])
    /\ IF ri >= Len(records)
       THEN pc' = AfterFile(fi) /\ fi' = fi + 1 /\ ri' = 0
       ELSE pc' = "fold" /\ fi' = fi /\ ri' = ri + 1
    /\ UNCHANGED <<mails_dir, csv_files, records, files_processed, flat, db,
                   run, first_flat, first_db>>
    /\ UNCHANGED <<svcVars, mainVars, extVars>>

\* lines 517-531: reports directory, schema, flat file
WriteFlat ==
    /\ pc = "write_flat"
    /\ reports_exists' = TRUE
    /\ flat' = write_consolidated_csv(full_expected_headers, email_data)
    /\ pc' = "write_db"
    /\ UNCHANGED <<mails_dir, csv_files, fi, records, ri, email_data,
                   files_processed, clock, folded, db, run, first_flat, first_db>>
    /\ UNCHANGED <<svcVars, mainVars, pathVars, dlVars, revRest>>

\* lines 533-549: store rows, statistics, return
InsertDb ==
    /\ pc = "write_db"
    /\ db' = insert_mailing_data(db, email_data, csv_files)
    /\ pc' = "done"
    /\ UNCHANGED <<mails_dir, csv_files, fi, records, ri, email_data,
                   files_processed, clock, folded, flat, run, first_flat, first_db>>
    /\ UNCHANGED <<svcVars, mainVars, extVars>>

\* consolidation is run again over the same directory, at a later time
Rerun ==
    /\ pc = "done"
    /\ run = 1
    /\ run' = 2
    /\ first_flat' = flat
    /\ first_db' = db
    /\ \E now \in clock..MaxNow : clock' = now
    /\ pc' = "idle"
    /\ UNCHANGED <<mails_dir, csv_files, fi, records, ri, email_data,
                   files_processed, folded, flat, db>>
    /\ UNCHANGED <<svcVars, mainVars, extVars>>

Next == Discover \/ ReadFile \/ FoldRow \/ WriteFlat \/ InsertDb

Spec == Init /\ [][Next]_vars

(***************************************************************************)
(* Two runs in a row over one unchanged file.                              *)
(***************************************************************************)
InitRerun ==
    /\ \E rows \in SeqsUpTo(RowPool, MaxRows) :
          mails_dir = DirOf(rows, 1, [i \in 0..1 |-> i * Len(rows)],
                            [i \in 1..1 |-> "ok"])
    /\ csv_files = <<>>
    /\ pc = "idle"
    /\ fi = 0
    /\ records = <<>>
    /\ ri = 0
    /\ email_data = <<>>
    /\ files_processed = 0
    /\ clock = NowStart
    /\ folded = <<>>
    /\ flat = <<>>
    /\ db = {}
    /\ run = 1
    /\ first_flat = <<>>
    /\ first_db = {}
    /\ SvcIdle
    /\ ExtIdle
    /\ MainIdle

NextRerun == Next \/ Rerun

SpecRerun == InitRerun /\ [][NextRerun]_vars


(***************************************************************************)
(* Properties of the mailing-list merge (specification Spec).              *)
(***************************************************************************)
\* every record of every file has been folded
Merged == pc \in {"write_flat", "write_db", "done"}

RECURSIVE SumNum(_, _)
SumNum(hist, email) ==
    IF hist = <<>> THEN 0
    ELSE (IF Head(hist).email = email THEN Head(hist).num_purchases ELSE 0)
         + SumNum(Tail(hist), email)

FoldedOf(email) == {k \in 1..Len(folded) : folded[k].email = email}

\* C1: once every record of every successfully read file is folded, each
\* non-empty identity has exactly one entry of the merge map; the entry's
\* field values are those of one folded row of that identity whose parsed
\* date is the earliest of the identity, and its total_purchases is the sum
\* of the parsed purchase counts of all rows of the identity.
C1_MergeResult ==
    Merged =>
      /\ {email_data[i].email : i \in 1..Len(email_data)}
           = {folded[k].email : k \in 1..Len(folded)}
      /\ \A i, j \in 1..Len(email_data) :
            email_data[i].email = email_data[j].email => i = j
      /\ \A i \in 1..Len(email_data) :
            LET e == email_data[i]
            IN  /\ e.email # <<>>
                /\ \E k \in FoldedOf(e.email) :
                      /\ folded[k].row = e.record
                      /\ folded[k].parsed_date = e.parsed_date
                      /\ \A m \in FoldedOf(e.email) :
                            folded[k].parsed_date <= folded[m].parsed_date
                /\ e.total_purchases = SumNum(folded, e.email)

\* an identity with three rows, the earliest of which was not folded first,
\* and a second identity
C1_Witness ==
    /\ pc = "done"
    /\ Len(email_data) = 2
    /\ \E i \in 1..Len(email_data) :
          /\ Cardinality(FoldedOf(email_data[i].email)) >= 2
          /\ folded[CHOOSE k \in FoldedOf(email_data[i].email) :
                      \A m \in FoldedOf(email_data[i].email) : k <= m].row
               # email_data[i].record
          /\ email_data[i].total_purchases >= 4

(***************************************************************************)
(* The rows of the directory, without their order: a position is a pair    *)
(* <<file, line>> of a file that can be read.                              *)
(***************************************************************************)
Positions ==
    UNION {{<<f, l>> : l \in 2..Len(mails_dir[f].lines)} :
             f \in {g \in 1..Len(mails_dir) : mails_dir[g].readable}}

RowAt(p) == mails_dir[p[1]].lines[p[2]]

PositionsOf(email) == {p \in Positions : Identity(RowAt(p)[1]) = email}

ValidDate(p) == StrptimeOk(Strip(RowAt(p)[5]))

DateAt(p) == Strptime(Strip(RowAt(p)[5]))

RECURSIVE SumPurchases(_)
SumPurchases(ps) ==
    IF ps = {} THEN 0
    ELSE LET p == CHOOSE q \in ps : TRUE
         IN  ParsePurchases(RowAt(p)[8]) + SumPurchases(ps \ {p})

\* the rows of the identity have valid, pairwise distinct dates
DistinctValidDates(email) ==
    \A p, q \in PositionsOf(email) :
        /\ ValidDate(p)
        /\ p # q => DateAt(p) # DateAt(q)

IdentitiesOfDir == {Identity(RowAt(p)[1]) : p \in Positions} \ {<<>>}

\* C2: for the rows of one identity with valid, pairwise distinct dates, the
\* merged entry is the earliest-dated row and the sum of the purchase
\* counts, whatever the order of the files and of the rows in them (both
\* are given by the set of rows alone).
C2_OrderIndependent ==
    Merged =>
      \A email \in IdentitiesOfDir :
         DistinctValidDates(email) =>
            \E i \in 1..Len(email_data) :
               /\ email_data[i].email = email
               /\ \E p \in PositionsOf(email) :
                     /\ \A q \in PositionsOf(email) : DateAt(p) <= DateAt(q)
                     /\ email_data[i].record = RowAt(p)
               /\ email_data[i].total_purchases = SumPurchases(PositionsOf(email))

\* the later-dated row is read first, from the first file, and loses
C2_Witness ==
    /\ pc = "done"
    /\ Len(mails_dir) = 2
    /\ \E email \in IdentitiesOfDir :
          /\ DistinctValidDates(email)
          /\ \E p, q \in PositionsOf(email) :
                p[1] = 1 /\ q[1] = 2 /\ DateAt(q) < DateAt(p)
          /\ \E i \in 1..Len(email_data) :
                email_data[i].email = email /\ email_data[i].total_purchases = 5

\* C3: a row whose date does not parse is merged (its purchase count is in
\* the total), and is never the winning record of an identity that also has
\* a row with a valid date.
C3_MalformedNeverWins ==
    Merged =>
      \A i \in 1..Len(email_data) :
         LET e == email_data[i]
         IN  /\ e.total_purchases = SumPurchases(PositionsOf(e.email))
             /\ (\E p \in PositionsOf(e.email) : ValidDate(p))
                   => StrptimeOk(Strip(e.record[5]))


(***************************************************************************)
(* Partial failure.                                                        *)
(***************************************************************************)
\* the read of the file raises: here, the file cannot be opened
ReadFails(f) == ~f.readable

\* the rows with an identity of the files whose read does not raise, in
\* reading order
RECURSIVE RowsWithIdentity(_)
RowsWithIdentity(lines) ==
    IF lines = <<>> THEN <<>>
    ELSE (IF Identity(Head(lines)[1]) # <<>> THEN <<Head(lines)>> ELSE <<>>)
         \o RowsWithIdentity(Tail(lines))

RECURSIVE ExpectedRows(_)
ExpectedRows(files) ==
    IF files = <<>> THEN <<>>
    ELSE (IF ReadFails(Head(files)) \/ Head(files).lines = <<>> THEN <<>>
          ELSE RowsWithIdentity(Tail(Head(files).lines)))
         \o ExpectedRows(Tail(files))

\* the merge of a sequence of folded rows, with the dates parsed for them
RECURSIVE MergeOf(_)
MergeOf(hist) ==
    IF hist = <<>> THEN <<>>
    ELSE LET h == hist[Len(hist)]
         IN  MergeRow(MergeOf(SubSeq(hist, 1, Len(hist) - 1)),
                      h.email, h.row, h.parsed_date, h.num_purchases)

SinksWritten ==
    /\ flat = write_consolidated_csv(full_expected_headers, email_data)
    /\ flat # <<>>
    /\ db = insert_mailing_data({}, email_data, csv_files)

Isolated ==
    /\ files_processed
         = Cardinality({i \in 1..Len(csv_files) : ~ReadFails(csv_files[i])})
    /\ [k \in 1..Len(folded) |-> folded[k].row] = ExpectedRows(csv_files)
    /\ email_data = MergeOf(folded)

\* the run has not returned and its next step can be taken: no exception
\* has left the loop
CanStep ==
    \/ pc = "idle"
    \/ pc = "read" /\ fi \in 1..Len(csv_files)
    \/ pc = "fold" /\ fi \in 1..Len(csv_files) /\ ri \in 1..Len(records)
    \/ pc \in {"write_flat", "write_db"}

\* C6 as stated: for any list of discovered files and any subset of them
\* whose read raises, the run returns having written both sinks, with
\* files_processed the number of files read and the merge that of their
\* records.
C6_AnyList ==
    /\ pc \in {"done", "nofiles"} => SinksWritten /\ Isolated
    /\ pc \notin {"done", "nofiles"} => CanStep

\* C6 (amended): the same for any non-empty list of discovered files.
C6_PartialFailure ==
    /\ (pc = "done" /\ csv_files # <<>>) => SinksWritten /\ Isolated
    /\ pc \notin {"done", "nofiles"} => CanStep

\* the first of two files cannot be read, the second is merged
C6_Witness ==
    /\ pc = "done"
    /\ Len(csv_files) = 2
    /\ ReadFails(csv_files[1])
    /\ files_processed = 1
    /\ Len(email_data) >= 1
    /\ Len(flat) >= 2

(***************************************************************************)
(* Empty identity.                                                         *)
(***************************************************************************)
\* the email field is empty or whitespace only
BlankText(cell) == \A i \in 1..Len(cell) : cell[i] \in Whitespace

NoBlankIdentity ==
    /\ \A i \in 1..Len(email_data) : ~BlankText(email_data[i].email)
    /\ \A l \in 2..Len(flat) : ~BlankText(flat[l][1])
    /\ \A r \in db : ~BlankText(r.email)

\* C8: folding a row whose email field is empty or whitespace-only leaves
\* the merge map as it was (no entry, no purchase count added), and no
\* entry of the merge map, line of the flat file or row of mailing_lists
\* has an empty identity.
C8_EmptyIdentityExcluded ==
    [][/\ (pc = "fold" /\ BlankText(ProjectRow(records[ri])[1]))
             => email_data' = email_data
       /\ NoBlankIdentity']_vars

\* a row with a whitespace-only email was read, and the sinks hold a row
C8_Witness ==
    /\ pc = "done"
    /\ \E p \in Positions : BlankText(RowAt(p)[1])
    /\ Len(flat) >= 2
    /\ db # {}


(***************************************************************************)
(* Re-run (specification SpecRerun).                                       *)
(***************************************************************************)
\* C5: the second of two runs over the same unchanged files writes a flat
\* file with the content the first run wrote, and leaves mailing_lists
\* with the number of rows it had after the first run.
C5_IdempotentRerun ==
    (run = 2 /\ pc = "done") =>
       /\ flat = first_flat
       /\ Cardinality(db) = Cardinality(first_db)


(***************************************************************************)
(* Reading one file whose header or encoding is not the usual one          *)
(* (specification SpecRead).                                               *)
(***************************************************************************)
\* rows as bytes on disk: ASCII, a Latin-1 byte, a UTF-8 pair, a blank row
ReadPool ==
    { Row(<<"a">>, <<"Ann">>, <<"Jan 01 2025 10:00 AM UTC">>, <<"3">>),
      Row(<<"b">>, <<"Ren", "e1">>, <<"Jan 05 2025 10:00 AM UTC">>, <<"2">>),
      Row(<<"a">>, <<"Zo", "e2">>, <<"Jan 05 2025 04:00 PM UTC">>, <<"1">>),
      <<<<>>, <<" ">>, <<>>, <<>>, <<>>, <<>>, <<>>, <<>>>> }

\* the canonical header, one with the first column renamed, one with the
\* first two columns in the other order
HeaderPool ==
    { full_expected_headers,
      [full_expected_headers EXCEPT ![1] = <<"e-mail">>],
      [full_expected_headers EXCEPT ![1] = <<"fullname">>, ![2] = <<"email">>] }

InitRead ==
    /\ \E rows \in SeqsUpTo(ReadPool, MaxRows) :
         \E header \in HeaderPool :
            \E buffered \in 0..Len(rows) :
               mails_dir = << [name |-> FileNames[1], readable |-> TRUE,
                               lines |-> <<header>> \o rows,
                               buffered |-> buffered] >>
    /\ csv_files = <<>>
    /\ pc = "idle"
    /\ fi = 0
    /\ records = <<>>
    /\ ri = 0
    /\ email_data = <<>>
    /\ files_processed = 0
    /\ clock = NowStart
    /\ folded = <<>>
    /\ flat = <<>>
    /\ db = {}
    /\ run = 1
    /\ first_flat = <<>>
    /\ first_db = {}
    /\ SvcIdle
    /\ ExtIdle
    /\ MainIdle

SpecRead == InitRead /\ [][Next]_vars

\* the file being folded, and its data lines
CurrentFile == csv_files[fi]

DataLines(f) == Tail(f.lines)

\* C4: for a file whose 8-column header differs from the canonical one,
\* every record taken from the file has as its i-th field the i-th cell of
\* a data row of the file (fields are taken by position, not by name).
C4_PositionalFields ==
    (pc = "fold" /\ Len(CurrentFile.lines[1]) = Len(full_expected_headers)) =>
       \A k \in 1..Len(records) :
          \E l \in 1..Len(DataLines(CurrentFile)) :
             \E e \in 1..Len(encodings_to_try) :
                ProjectRow(records[k])
                  = DecodeRow(encodings_to_try[e], DataLines(CurrentFile)[l])

\* the first encoding of encodings_to_try that decodes the whole file
WinningEncoding(f) ==
    encodings_to_try[CHOOSE k \in 1..Len(encodings_to_try) :
                        /\ FirstBad(encodings_to_try[k], f.lines) = 0
                        /\ \A j \in 1..(k - 1) :
                              FirstBad(encodings_to_try[j], f.lines) # 0]

\* C7: process_single_csv returns exactly the non-blank data rows of the
\* file, decoded under the first encoding that decodes the whole file, each
\* row once.
C7_EachRowOnce ==
    pc = "fold" =>
       records = RowsRead(WinningEncoding(CurrentFile), CurrentFile.lines,
                          Len(CurrentFile.lines) - 1)

(***************************************************************************)
(* UtilityService: the background runs.  A thread is [kind, tpc]; tpc is   *)
(* the line of run_in_thread it executes next.                             *)
(***************************************************************************)
MaxThreads == 3

\* the pipeline is not called
PipeOff ==
    /\ mails_dir = <<>>
    /\ csv_files = <<>>
    /\ pc = "off"
    /\ fi = 0
    /\ records = <<>>
    /\ ri = 0
    /\ email_data = <<>>
    /\ files_processed = 0
    /\ clock = NowStart
    /\ folded = <<>>
    /\ flat = <<>>
    /\ db = {}
    /\ run = 1
    /\ first_flat = <<>>
    /\ first_db = {}

InitSvc == PipeOff /\ SvcIdle /\ MainIdle /\ ExtIdle

\* lines 72-74: the thread is created and started, whatever utility_status
\* says
start_mails_utility ==
    /\ Len(threads) < MaxThreads
    /\ threads' = Append(threads, [kind |-> "mails", tpc |-> "L38"])
    /\ UNCHANGED <<utility_status, pipeVars, mainVars, extVars>>

\* lines 101-103: the same for the revenue reports
start_reports_utility ==
    /\ Len(threads) < MaxThreads
    /\ threads' = Append(threads, [kind |-> "reports", tpc |-> "L38"])
    /\ UNCHANGED <<utility_status, pipeVars, mainVars, extVars>>

\* thread t executes the line it is at: field := value, then goes to next
ThreadSets(t, line, field, value, next) ==
    /\ threads[t].tpc = line
    /\ utility_status' =
          [utility_status EXCEPT ![threads[t].kind][field] = value]
    /\ threads' = [threads EXCEPT ![t].tpc = next]
    /\ UNCHANGED <<pipeVars, mainVars, extVars>>

SetRunning ==
    \E t \in 1..Len(threads) : ThreadSets(t, "L38", "running", TRUE, "L39")

ResetCompleted ==
    \E t \in 1..Len(threads) : ThreadSets(t, "L39", "completed", FALSE, "L40")

ResetPdfFilename ==
    \E t \in 1..Len(threads) :
       ThreadSets(t, "L40", "pdf_filename", "None", "L41")

SetOutputDirectory ==
    \E t \in 1..Len(threads) :
       ThreadSets(t, "L41", "output_directory", "directory", "L45")

\* lines 44-50: the utility runs, and returns or raises
RunUtility ==
    \E t \in 1..Len(threads) :
       /\ threads[t].tpc = "L45"
       /\ \E next \in {"L52", "L55"} :
             threads' = [threads EXCEPT ![t].tpc = next]
       /\ UNCHANGED <<utility_status, pipeVars, mainVars, extVars>>

SetCompleted ==
    \E t \in 1..Len(threads) : ThreadSets(t, "L52", "completed", TRUE, "L57")

SetCompletedOnError ==
    \E t \in 1..Len(threads) : ThreadSets(t, "L55", "completed", TRUE, "L57")

ClearRunning ==
    \E t \in 1..Len(threads) : ThreadSets(t, "L57", "running", FALSE, "end")

\* GET /status/<utility_type>
get_utility_status(utility_type) == utility_status[utility_type]

NextSvc ==
    \/ start_mails_utility
    \/ start_reports_utility
    \/ SetRunning
    \/ ResetCompleted
    \/ ResetPdfFilename
    \/ SetOutputDirectory
    \/ RunUtility
    \/ SetCompleted
    \/ SetCompletedOnError
    \/ ClearRunning

SpecSvc == InitSvc /\ [][NextSvc]_vars

\* the runs of a kind that have been started and have not finished
InFlight(kind) ==
    {t \in 1..Len(threads) : threads[t].kind = kind /\ threads[t].tpc # "end"}

\* C9: at most one background run per dataset kind is in flight at any
\* time; a start request received while a run of the same kind is active
\* starts no second run of that kind
C9_OneRunPerKind ==
    \A kind \in UtilityTypes : Cardinality(InFlight(kind)) <= 1

(***************************************************************************)
(* main of the two utilities: the outputs directory is cleared, then the   *)
(* files are downloaded, or not, and consolidate_csv_files is called.      *)
(* A revenue file is [name, valid]: valid when it reads as non-empty text. *)
(***************************************************************************)
MainRows ==
    { Row(<<"a">>, <<"Ann">>, <<"Jan 01 2025 10:00 AM UTC">>, <<"3">>),
      Row(<<"A", " ">>, <<"Late">>, <<"Jan 05 2025 04:00 PM UTC">>, <<" ", "2">>) }

MailFile(i, row) ==
    [name |-> FileNames[i], readable |-> TRUE,
     lines |-> <<full_expected_headers, row>>, buffered |-> 0]

RevenueNames ==
    << <<"consolidated_bandcamp_reports_", "2025-01", ".csv">>,
       <<"raw_data", "-a", ".csv">>, <<"raw_data", "-b", ".csv">>,
       <<"raw_data", "-c", ".csv">>, <<"raw_data", "-d", ".csv">> >>

RevenueDir(first, n) == [i \in 1..n |-> [name |-> RevenueNames[first + i - 1],
                                          valid |-> TRUE]]

InitMain ==
    /\ \E n \in 0..MaxFiles : \E rows \in [1..n -> MainRows] :
          mails_dir = [i \in 1..n |-> MailFile(i, rows[i])]
    /\ \E n \in 0..MaxFiles : \E first \in 1..2 :
          revenues_dir = RevenueDir(first, n)
    /\ outputs_exists = (mails_dir # <<>> \/ revenues_dir # <<>>)
    /\ mails_dir0 = mails_dir
    /\ revenues_dir0 = revenues_dir
    /\ utility \in UtilityTypes
    /\ consolidate_only \in BOOLEAN
    /\ force \in BOOLEAN
    /\ has_artists \in BOOLEAN
    /\ artists \in (IF has_artists THEN 0..MaxFiles ELSE {0})
    /\ main_pc = "clear"
    /\ artist = 0
    /\ downloads = 0
    /\ rev_files = <<>>
    /\ csv_files = <<>>
    /\ pc = "off"
    /\ fi = 0
    /\ records = <<>>
    /\ ri = 0
    /\ email_data = <<>>
    /\ files_processed = 0
    /\ clock = NowStart
    /\ folded = <<>>
    /\ flat = <<>>
    /\ db = {}
    /\ run = 1
    /\ first_flat = <<>>
    /\ first_db = {}
    /\ SvcIdle
    /\ ExtIdle

\* shutil.rmtree inside try/except: the directory is removed, or the call
\* raises after it removed the first k entries
Rmtree(dir) == {SubSeq(dir, k + 1, Len(dir)) : k \in 0..Len(dir)}

\* lines 132 and 135 of bandcamp_mails.py, 160 and 163 of bandcamp_reports.py
AfterClear == IF consolidate_only THEN "consolidate" ELSE "download"

\* bandcamp_mails.py, clear_outputs_directory, called at line 126 whatever
\* the mode is: mails/ is removed, and the files of reports/ whose name
\* holds "mail", which the flat file and the database are
ClearMails ==
    /\ main_pc = "clear"
    /\ utility = "mails"
    /\ IF ~outputs_exists
       THEN /\ outputs_exists' = TRUE
            /\ UNCHANGED <<mails_dir, flat, db>>
       ELSE /\ mails_dir' \in Rmtree(mails_dir)
            /\ flat' \in {<<>>, flat}
            /\ db' \in {{}, db}
            /\ UNCHANGED outputs_exists
    /\ main_pc' = AfterClear
    /\ artist' = 1
    /\ UNCHANGED <<csv_files, pc, fi, records, ri, email_data, files_processed,
                   clock, folded, run, first_flat, first_db>>
    /\ UNCHANGED <<utility, consolidate_only, revenues_dir, rev_files, has_artists,
                   artists, force, downloads, mails_dir0, revenues_dir0, svcVars,
                   extVars>>

\* bandcamp_reports.py, clear_outputs_directory, called at line 158
\* whatever the mode is: revenues/ and reports/ are removed
ClearReports ==
    /\ main_pc = "clear"
    /\ utility = "reports"
    /\ IF ~outputs_exists
       THEN /\ outputs_exists' = TRUE
            /\ UNCHANGED <<revenues_dir, flat, db>>
       ELSE /\ revenues_dir' \in Rmtree(revenues_dir)
            /\ \E removed \in BOOLEAN :
                  /\ flat' = IF removed THEN <<>> ELSE flat
                  /\ db' = IF removed THEN {} ELSE db
            /\ UNCHANGED outputs_exists
    /\ main_pc' = AfterClear
    /\ artist' = 1
    /\ UNCHANGED <<mails_dir, csv_files, pc, fi, records, ri, email_data,
                   files_processed, clock, folded, run, first_flat, first_db>>
    /\ UNCHANGED <<utility, consolidate_only, rev_files, has_artists, artists, force,
                   downloads, mails_dir0, revenues_dir0, svcVars,
                   extVars>>

HasName(dir, name) == \E i \in 1..Len(dir) : dir[i].name = name

\* open(path, 'w'): the file is created, or written over where it is
PutFile(dir, f) ==
    IF HasName(dir, f.name)
    THEN [i \in 1..Len(dir) |-> IF dir[i].name = f.name THEN f ELSE dir[i]]
    ELSE Append(dir, f)

\* bandcamp_mails.py, download_file: the request fails and the exception is
\* printed, or the file exists and is kept, or the response is saved
DownloadMails(dir, i) ==
    {dir} \cup
    (IF HasName(dir, FileNames[i]) /\ ~force THEN {}
     ELSE {PutFile(dir, MailFile(i, row)) : row \in MainRows})

\* bandcamp_reports.py, download_file: the name is the one the response
\* gives; an existing file that reads as non-empty text is kept
DownloadRevenues(dir) ==
    {dir} \cup
    UNION {IF (\E j \in 1..Len(dir) : dir[j].name = RevenueNames[n] /\ dir[j].valid)
              /\ ~force
           THEN {}
           ELSE {PutFile(dir, [name |-> RevenueNames[n], valid |-> TRUE])} :
           n \in 2..Len(RevenueNames)}

\* main, the loop over artists (lines 140-143; 170-173 for the reports)
Download ==
    /\ main_pc = "download"
    /\ has_artists
    /\ artist <= artists
    /\ downloads' = downloads + 1
    /\ artist' = artist + 1
    /\ IF utility = "mails"
       THEN mails_dir' \in DownloadMails(mails_dir, artist)
            /\ UNCHANGED revenues_dir
       ELSE revenues_dir' \in DownloadRevenues(revenues_dir)
            /\ UNCHANGED mails_dir
    /\ UNCHANGED <<csv_files, pc, fi, records, ri, email_data, files_processed,
                   clock, folded, flat, db, run, first_flat, first_db>>
    /\ UNCHANGED <<main_pc, utility, consolidate_only, outputs_exists,
                   rev_files, has_artists, artists, force, mails_dir0, revenues_dir0, svcVars,
                   extVars>>

\* main, after the loop (lines 145-148)
DownloadsDone ==
    /\ main_pc = "download"
    /\ has_artists
    /\ artist > artists
    /\ main_pc' = "consolidate"
    /\ UNCHANGED <<pipeVars, svcVars, extVars, utility, consolidate_only, outputs_exists,
                   revenues_dir, rev_files, has_artists, artists, force, artist, downloads,
                   mails_dir0, revenues_dir0>>

\* main, lines 150-152: artists.py cannot be imported
NoArtists ==
    /\ main_pc = "download"
    /\ ~has_artists
    /\ main_pc' = "returned"
    /\ UNCHANGED <<pipeVars, svcVars, extVars, utility, consolidate_only, outputs_exists,
                   revenues_dir, rev_files, has_artists, artists, force, artist, downloads,
                   mails_dir0, revenues_dir0>>

\* main, lines 134 and 148: consolidate_csv_files is called
Consolidate ==
    /\ main_pc = "consolidate"
    /\ utility = "mails"
    /\ main_pc' = "called"
    /\ pc' = "idle"
    /\ UNCHANGED <<mails_dir, csv_files, fi, records, ri, email_data,
                   files_processed, clock, folded, flat, db, run, first_flat,
                   first_db>>
    /\ UNCHANGED <<svcVars, extVars, utility, consolidate_only, outputs_exists,
                   revenues_dir, rev_files, has_artists, artists, force, artist, downloads,
                   mails_dir0, revenues_dir0>>

\* consolidate_csv_files has returned, and main with it
Return ==
    /\ main_pc = "called"
    /\ pc \in {"nofiles", "done"}
    /\ main_pc' = "returned"
    /\ UNCHANGED <<pipeVars, svcVars, extVars, utility, consolidate_only, outputs_exists,
                   revenues_dir, rev_files, has_artists, artists, force, artist, downloads,
                   mails_dir0, revenues_dir0>>

IsConsolidatedReport(name) ==
    Len(name) >= 1 /\ name[1] = "consolidated_bandcamp_reports_"

IsCsv(name) == Len(name) >= 1 /\ name[Len(name)] = ".csv"

RECURSIVE SelectRevenues(_)
SelectRevenues(files) ==
    IF files = <<>> THEN <<>>
    ELSE LET f == Head(files)
         IN  (IF IsCsv(f.name) /\ ~IsConsolidatedReport(f.name)
              THEN <<f>> ELSE <<>>) \o SelectRevenues(Tail(files))

\* bandcamp_reports.py, consolidate_csv_files, the files it finds (lines
\* 455-464), called from main at lines 162 and 178
ConsolidateReports ==
    /\ main_pc = "consolidate"
    /\ utility = "reports"
    /\ rev_files' = SelectRevenues(revenues_dir)
    /\ main_pc' = "returned"
    /\ UNCHANGED <<pipeVars, svcVars, extVars, utility, consolidate_only, outputs_exists,
                   revenues_dir, has_artists, artists, force, artist, downloads,
                   mails_dir0, revenues_dir0>>

NextMain ==
    \/ ClearMails
    \/ ClearReports
    \/ Download
    \/ DownloadsDone
    \/ NoArtists
    \/ Consolidate
    \/ Return
    \/ ConsolidateReports
    \/ Next

SpecMain == InitMain /\ [][NextMain]_vars

\* the source CSV files the utility had when main was called
SourceFiles0 ==
    IF utility = "mails" THEN get_csv_files(mails_dir0)
    ELSE SelectRevenues(revenues_dir0)

\* C10: when main is called with consolidate_only set and the output
\* directory holds source CSV files, no download is attempted, the source
\* files are neither deleted nor modified, and exactly those files are the
\* ones consolidated
C10_ConsolidateOnly ==
    (consolidate_only /\ SourceFiles0 # <<>>) =>
       /\ downloads = 0
       /\ utility = "mails" => mails_dir = mails_dir0
       /\ utility = "reports" => revenues_dir = revenues_dir0
       /\ (utility = "mails" /\ main_pc \in {"called", "returned"} /\ pc # "idle")
             => csv_files = SourceFiles0
       /\ (utility = "reports" /\ main_pc = "returned")
             => rev_files = SourceFiles0

(***************************************************************************)
(* sanitize_path (the same function in both utilities).  A path and        *)
(* sys.platform are sequences of characters.                               *)
(***************************************************************************)
MaxPath == 4

Letters == {"C", "a"}

\* the characters of SANATIZE_PATH_WINDOWS_REGEX, [<>:"/|?*]
SanitizedChars == {"<", ">", ":", "\"", "/", "|", "?", "*"}

PathChars == Letters \cup SanitizedChars \cup {"\\"}

Platforms == { <<"w", "i", "n", "3", "2">>, <<"d", "a", "r", "w", "i", "n">>,
               <<"l", "i", "n", "u", "x">> }

\* str.startswith
StartsWith(s, prefix) ==
    Len(s) >= Len(prefix) /\ SubSeq(s, 1, Len(prefix)) = prefix

NoDriveMatch(_path) == FALSE

\* WINDOWS_DRIVE_REGEX.match(_path): [a-zA-Z]:\\ at the start of the path
WindowsDriveMatch(_path) ==
    Len(_path) >= 3 /\ _path[1] \in Letters /\ _path[2] = ":" /\ _path[3] = "\\"

\* SANATIZE_PATH_WINDOWS_REGEX.sub('-', search_path)
SanitizeSub(search_path) ==
    [i \in 1..Len(search_path) |->
        IF search_path[i] \in SanitizedChars THEN "-" ELSE search_path[i]]

sanitize_path(_path, sys_platform) ==
    IF StartsWith(sys_platform, <<"w", "i", "n">>)
    THEN IF WindowsDriveMatch(_path)
         THEN SubSeq(_path, 1, 3) \o SanitizeSub(SubSeq(_path, 4, Len(_path)))
         ELSE SanitizeSub(_path)
    ELSE _path

InitPath ==
    /\ platform \in Platforms
    /\ path \in SeqsUpTo(PathChars, MaxPath)
    /\ new_path = <<"unset">>
    /\ PipeOff /\ SvcIdle /\ MainIdle /\ DlIdle /\ RevIdle

\* the call: new_path is what sanitize_path returns
Sanitize ==
    /\ new_path = <<"unset">>
    /\ new_path' = sanitize_path(path, platform)
    /\ UNCHANGED <<platform, path, pipeVars, svcVars, mainVars, dlVars, revVars>>

SpecPath == InitPath /\ [][Sanitize]_vars

\* the platform is a restrictive one (Windows)
Restrictive == platform = <<"w", "i", "n", "3", "2">>

\* positions of the leading drive prefix: letter, colon, backslash
DrivePrefix ==
    IF /\ Len(path) >= 3
       /\ path[1] \in {"C", "a"}
       /\ <<path[2], path[3]>> = <<":", "\\">>
    THEN {1, 2, 3} ELSE {}

\* C18: on a restrictive platform the result is the input with each of
\* < > : " / | ? * replaced by '-' outside a leading drive prefix, whose
\* three characters are kept; on another platform the result is the input;
\* the length is the input's in both cases
C18_SanitizePath ==
    new_path # <<"unset">> =>
       /\ Len(new_path) = Len(path)
       /\ \A i \in 1..Len(path) :
             new_path[i] =
                IF /\ Restrictive
                   /\ i \notin DrivePrefix
                   /\ path[i] \in {"<", ">", ":", "\"", "/", "|", "?", "*"}
                THEN "-" ELSE path[i]

\* C18 witness: a Windows path with a drive prefix and a question mark
\* after it has been sanitized
C18_Witness ==
    /\ Restrictive
    /\ path = <<"C", ":", "\\", "?">>
    /\ new_path = <<"C", ":", "\\", "-">>

(***************************************************************************)
(* download_file, request by request, inside the loop of main over the     *)
(* artists.  The recursive call of the HTTPError handler is the next       *)
(* request of the same URL; RecursionLimit stands for the depth at which   *)
(* Python raises RecursionError.                                           *)
(***************************************************************************)
RecursionLimit == 7

InitDl ==
    /\ utility \in UtilityTypes
    /\ max_url_attempts \in 1..MAX_URL_ATTEMPTS
    /\ artists \in 1..MaxFiles
    /\ force \in BOOLEAN
    /\ has_artists = TRUE
    /\ main_pc = "download"
    /\ artist = 1
    /\ downloads = 0
    /\ consolidate_only = FALSE
    /\ outputs_exists = TRUE
    /\ revenues_dir = <<>>
    /\ rev_files = <<>>
    /\ mails_dir0 = <<>>
    /\ revenues_dir0 = <<>>
    /\ dl_pc = "none"
    /\ attempt = 0
    /\ to_is_dir = TRUE
    /\ requests = 0
    /\ saved = FALSE
    /\ PipeOff /\ SvcIdle /\ PathIdle /\ RevIdle

\* main, lines 141-142 (171-172 for the reports): download_file(url, ...)
\* with _attempt at its default
DownloadCall ==
    /\ main_pc = "download"
    /\ dl_pc = "none"
    /\ artist <= artists
    /\ dl_pc' = "request"
    /\ attempt' = 1
    /\ to_is_dir' = TRUE
    /\ requests' = 0
    /\ saved' = FALSE
    /\ downloads' = downloads + 1
    /\ UNCHANGED <<pipeVars, svcVars, pathVars, revVars, max_url_attempts, main_pc,
                   utility, consolidate_only, outputs_exists, revenues_dir,
                   rev_files, has_artists, artists, force, artist, mails_dir0,
                   revenues_dir0>>

\* _attempt of the recursive call: bandcamp_reports.py line 239 passes
\* (_url, _to, _attempt + 1) to (_url, _to, _attempt); bandcamp_mails.py
\* line 199 passes the same three values to (_url, artist, _to, _attempt),
\* so _attempt + 1 becomes _to and _attempt keeps its default
RetryAttempt(a) == IF utility = "mails" THEN 1 ELSE a + 1

\* _to of the recursive call is still a directory name
RetryToIsDir == utility = "reports"

\* requests.get answers with an error status: raise_for_status raises
\* HTTPError (lines 193-202; 233-242 in the reports)
HttpError ==
    /\ dl_pc = "request"
    /\ requests < RecursionLimit
    /\ requests' = requests + 1
    /\ IF attempt < max_url_attempts
       THEN /\ attempt' = RetryAttempt(attempt)
            /\ to_is_dir' = RetryToIsDir
            /\ dl_pc' = "request"
       ELSE /\ dl_pc' = "return"
            /\ UNCHANGED <<attempt, to_is_dir>>
    /\ UNCHANGED <<pipeVars, svcVars, mainVars, pathVars, revVars, max_url_attempts,
                   saved>>

\* requests.get answers: the file is saved or kept as it is, or an
\* exception is printed (os.path.join raises TypeError when _to is a number)
Response ==
    /\ dl_pc = "request"
    /\ requests < RecursionLimit
    /\ requests' = requests + 1
    /\ dl_pc' = "return"
    /\ IF ~to_is_dir
       THEN UNCHANGED <<mails_dir, revenues_dir>>
       ELSE IF utility = "mails"
            THEN /\ mails_dir' \in DownloadMails(mails_dir, artist)
                 /\ UNCHANGED revenues_dir
            ELSE /\ revenues_dir' \in DownloadRevenues(revenues_dir)
                 /\ UNCHANGED mails_dir
    /\ saved' = (mails_dir' # mails_dir \/ revenues_dir' # revenues_dir)
    /\ UNCHANGED <<csv_files, pc, fi, records, ri, email_data, files_processed,
                   clock, folded, flat, db, run, first_flat, first_db>>
    /\ UNCHANGED <<svcVars, pathVars, revVars, max_url_attempts, attempt, to_is_dir,
                   main_pc, utility, consolidate_only, outputs_exists,
                   rev_files, has_artists, artists, force, artist, downloads,
                   mails_dir0, revenues_dir0>>

\* the stack is exhausted: RecursionError, caught by except Exception
RecursionError ==
    /\ dl_pc = "request"
    /\ requests >= RecursionLimit
    /\ dl_pc' = "return"
    /\ UNCHANGED <<pipeVars, svcVars, mainVars, pathVars, revVars, max_url_attempts,
                   attempt, to_is_dir, requests, saved>>

\* download_file returns to the loop of main
DownloadReturn ==
    /\ dl_pc = "return"
    /\ dl_pc' = "none"
    /\ artist' = artist + 1
    /\ UNCHANGED <<pipeVars, svcVars, pathVars, revVars, max_url_attempts, attempt,
                   to_is_dir, requests, saved, main_pc, utility,
                   consolidate_only, outputs_exists, revenues_dir, rev_files,
                   has_artists, artists, force, downloads, mails_dir0,
                   revenues_dir0>>

NextDl ==
    \/ DownloadCall
    \/ HttpError
    \/ Response
    \/ RecursionError
    \/ DownloadReturn
    \/ DownloadsDone

SpecDl == InitDl /\ [][NextDl]_vars

\* C15: for one URL download_file issues at most MAX_URL_ATTEMPTS HTTP
\* requests and gives up after the last of them, in the mailing-list and in
\* the revenue downloader
C15_BoundedRetry == requests <= max_url_attempts

(***************************************************************************)
(* The revenue consolidation (bandcamp_reports.py, consolidate_csv_files   *)
(* and insert_revenue_data).  A revenue file is [name, valid, readable,    *)
(* lines, buffered], as a mailing-list file is.                            *)
(***************************************************************************)
rev_full_expected_headers ==
    << <<"Cat no.">>, <<"UPC">>, <<"ISRC">>, <<"SKU">>, <<"Item type">>,
       <<"Item name">>, <<"Container name">>, <<"Package">>, <<"Artist name">>,
       <<"Label name">>, <<"Region">>, <<"Quantity">>, <<"Currency">>,
       <<"Gross revenue">>, <<"Shipping">>, <<"Taxes">>,
       <<"Bandcamp assessed revenue share">>, <<"Collection society share">>,
       <<"Payment processor fees">>, <<"Net revenue">>, <<"URL">>,
       <<"Transaction date from">>, <<"Transaction date to">> >>

columns_to_exclude ==
    { <<"UPC">>, <<"ISRC">>, <<"SKU">>, <<"Collection society share">>,
      <<"Container name">>, <<"URL">>, <<"Transaction date from">>,
      <<"Transaction date to">> }

\* the cells of row, from column i on, whose column is not excluded
RECURSIVE FilterColumns(_, _)
FilterColumns(row, i) ==
    IF i > Len(row) THEN <<>>
    ELSE (IF i <= Len(rev_full_expected_headers)
             /\ rev_full_expected_headers[i] \notin columns_to_exclude
          THEN <<row[i]>> ELSE <<>>) \o FilterColumns(row, i + 1)

\* lines 445-446, and lines 577-580 for a row
expected_headers == FilterColumns(rev_full_expected_headers, 1)

filtered_row(row) == FilterColumns(row, 1)

\* lines 566-571: pad with '' or truncate to the full column count
PadRow(row) ==
    [i \in 1..Len(rev_full_expected_headers) |->
        IF i <= Len(row) THEN row[i] ELSE <<>>]

\* float(s) on the texts of the model: optional surrounding whitespace,
\* digits, optionally a point and digits; the value is in hundredths
FloatOk(s) ==
    LET t == Strip(s)
        dots == {i \in 1..Len(t) : t[i] = "."}
    IN  /\ t # <<>>
        /\ Cardinality(dots) <= 1
        /\ \E i \in 1..Len(t) : t[i] \in Digits
        /\ \A i \in 1..Len(t) : t[i] \in Digits \cup {"."}

FloatOf(s) ==
    LET t == Strip(s)
        dots == {i \in 1..Len(t) : t[i] = "."}
        dot == IF dots = {} THEN Len(t) + 1 ELSE CHOOSE i \in dots : TRUE
        frac == SubSeq(t, dot + 1, Len(t)) \o <<"0", "0">>
    IN  100 * Decimal(SubSeq(t, 1, dot - 1)) + Decimal(SubSeq(frac, 1, 2))

\* lines 385-397: the conversions raise ValueError or not
CoerceOk(row) ==
    /\ Strip(row[12]) = <<>> \/ IntOk(row[12])
    /\ \A i \in 14..20 : Strip(row[i]) = <<>> \/ FloatOk(row[i])

\* lines 385-397: quantity and the seven amounts as numbers
Coerce(row) ==
    [i \in 1..Len(row) |->
        IF i = 12 THEN (IF Strip(row[i]) = <<>> THEN 0 ELSE IntOf(row[i]))
        ELSE IF i \in 14..20
             THEN (IF Strip(row[i]) = <<>> THEN 0 ELSE FloatOf(row[i]))
        ELSE row[i]]

\* one row of revenue_reports
StoreRevenueRow(row, date_begin, date_end, source_file) ==
    [values |-> Coerce(row), date_range_begin |-> date_begin,
     date_range_end |-> date_end, source_file |-> source_file]

\* an insertion that gives up the batch at the first row that does not
\* convert
RECURSIVE InsertUntilFailure(_, _, _, _, _)
InsertUntilFailure(table, data_rows, date_begin, date_end, source_file) ==
    IF data_rows = <<>> \/ ~CoerceOk(Head(data_rows)) THEN table
    ELSE InsertUntilFailure(
            Append(table, StoreRevenueRow(Head(data_rows), date_begin,
                                          date_end, source_file)),
            Tail(data_rows), date_begin, date_end, source_file)

\* insert_revenue_data: the table after the call; a row whose conversion
\* raises is skipped
RECURSIVE insert_revenue_data(_, _, _, _, _)
insert_revenue_data(table, data_rows, date_begin, date_end, source_file) ==
    IF data_rows = <<>> THEN table
    ELSE insert_revenue_data(
            IF CoerceOk(Head(data_rows))
            THEN Append(table, StoreRevenueRow(Head(data_rows), date_begin,
                                               date_end, source_file))
            ELSE table,
            Tail(data_rows), date_begin, date_end, source_file)

\* a data line with an item name, a quantity and a gross revenue
RevRow(item, quantity, gross) ==
    [i \in 1..Len(rev_full_expected_headers) |->
        IF i = 6 THEN item ELSE IF i = 9 THEN <<"artist">>
        ELSE IF i = 12 THEN quantity ELSE IF i = 13 THEN <<"EUR">>
        ELSE IF i = 14 THEN gross ELSE <<>>]

RevPool ==
    { RevRow(<<"t1">>, <<"2">>, <<"1", ".", "5">>),
      RevRow(<<"t2">>, <<"x">>, <<"3">>),
      RevRow(<<"t3", "e1">>, <<" ", "1">>, <<>>),
      << <<" ">>, <<>> >> }


\* n revenue files holding the rows in order, as DirOf does for the mails
RevDirOf(rows, n, c, kind, b) ==
    [i \in 1..n |->
        [name |-> RevenueNames[i + 1],
         valid |-> TRUE,
         readable |-> kind[i] # "unreadable",
         lines |-> <<rev_full_expected_headers>> \o
                   SubSeq(rows, c[i - 1] + 1, c[i]),
         buffered |-> b]]

\* most data rows over the revenue files of one run
MaxRevRows == 2

\* the first chunk of a file ends before its second data line, or the file
\* is one chunk (which only matters when a line does not decode as UTF-8)
BufferedOf(rows) ==
    IF \A i \in 1..Len(rows) : DecodableRow("utf-8", rows[i]) THEN {0}
    ELSE {0, 1}

InitRev ==
    /\ \E n \in 0..MaxFiles :
         \E rows \in (IF n = 0 THEN {<<>>}
                      ELSE SeqsUpTo(RevPool, MaxRevRows)) :
            \E c \in Cuts(Len(rows), n) :
               \E kind \in KindsOf(c, n) :
                  \E b \in BufferedOf(rows) :
                     revenues_dir = RevDirOf(rows, n, c, kind, b)
    /\ revenues_dir0 = revenues_dir
    /\ utility = "reports"
    /\ main_pc = "none"
    /\ consolidate_only = TRUE
    /\ outputs_exists = TRUE
    /\ rev_files = <<>>
    /\ has_artists = TRUE
    /\ artists = 0
    /\ force = FALSE
    /\ artist = 0
    /\ downloads = 0
    /\ mails_dir0 = <<>>
    /\ rev_pc = "idle"
    /\ year_month = "2025-01"
    /\ date_range = <<"2025-01-01", "2025-01-31">>
    /\ reports_exists = FALSE
    /\ rev_flat = [m \in YearMonths |-> NoFile]
    /\ rev_db = [m \in YearMonths |-> NoStore]
    /\ rev_run = 1
    /\ rev_flat0 = rev_flat
    /\ rev_db0 = rev_db
    /\ out_fault = "none"
    /\ RevLocals
    /\ PipeOff /\ SvcIdle /\ PathIdle /\ DlIdle

\* a consolidation that goes on without a source file
RevAlwaysSetup(files) == "setup"

\* lines 462-464: no file found returns None at once
RevAfterDiscovery(files) == IF files = <<>> THEN "nofiles" ELSE "setup"

\* lines 455-475: discovery; no file found returns None at once
RevDiscover ==
    /\ rev_pc = "idle"
    /\ rev_files' = SelectRevenues(ListDir(RevenuesSubdir))
    /\ rev_pc' = RevAfterDiscovery(rev_files')
    /\ rev_result' = IF rev_pc' = "nofiles" THEN "None" ELSE rev_result
    /\ total_rows' = 0
    /\ rev_files_processed' = 0
    /\ UNCHANGED <<year_month, date_range, reports_exists, rev_flat, rev_db,
                   rev_fi, rev_encoding, rev_ri, db_rows, total_db_rows,
                   incorporated, rev_run, rev_flat0, rev_db0, out_fault>>
    /\ UNCHANGED <<pipeVars, svcVars, pathVars, dlVars, main_pc, utility,
                   consolidate_only, outputs_exists, revenues_dir, has_artists,
                   artists, force, artist, downloads, mails_dir0, revenues_dir0>>

\* what no action of the revenue consolidation changes
RevFrame ==
    UNCHANGED <<pipeVars, svcVars, mainVars, pathVars, dlVars, year_month,
                date_range, rev_run, rev_flat0, rev_db0>>

\* where the loop over csv_files goes after file i
RevAfterFile(i) == IF i >= Len(rev_files) THEN "close" ELSE "open"

\* lines 483-504: the reports directory, the store and its table, the flat
\* file opened for writing and its header
RevSetup ==
    /\ rev_pc = "setup"
    /\ reports_exists' = TRUE
    /\ rev_db' = [rev_db EXCEPT ![year_month].exists = TRUE]
    /\ rev_flat' = [rev_flat EXCEPT ![year_month] =
                      [exists |-> TRUE, lines |-> <<expected_headers>>]]
    /\ total_db_rows' = 0
    /\ rev_fi' = 1
    /\ rev_pc' = RevAfterFile(0)
    /\ UNCHANGED <<rev_encoding, rev_ri, db_rows, total_rows,
                   rev_files_processed, rev_result, incorporated, out_fault>>
    /\ RevFrame

\* the rows the reader hands out under enc before UnicodeDecodeError
RowsBeforeError(enc, file) ==
    LET bad == FirstBad(enc, file.lines)
    IN  IF bad = 0 THEN Len(file.lines) - 1
        ELSE IF bad = 1 THEN 0 ELSE Min(file.buffered, bad - 2)

\* lines 519-524: open and readline decode the first chunk of the file
ProbeOk(enc, file) ==
    FirstBad(enc, file.lines) = 0 \/ RowsBeforeError(enc, file) > 0

\* lines 517-529: the first encoding whose probe passes
FirstEncoding(file) ==
    encodings_to_try[CHOOSE k \in 1..Len(encodings_to_try) :
                        /\ ProbeOk(encodings_to_try[k], file)
                        /\ \A j \in 1..(k - 1) :
                              ~ProbeOk(encodings_to_try[j], file)]

\* lines 511-561: open the file and read its header; a file that cannot be
\* opened, or has no line, is left (lines 613-616, 541-546)
RevOpen ==
    /\ rev_pc = "open"
    /\ LET file == rev_files[rev_fi]
       IN  IF ~file.readable \/ file.lines = <<>>
           THEN /\ rev_pc' = RevAfterFile(rev_fi)
                /\ rev_fi' = rev_fi + 1
                /\ UNCHANGED <<rev_encoding, rev_ri, db_rows>>
           ELSE /\ rev_encoding' = FirstEncoding(file)
                /\ rev_ri' = 0
                /\ db_rows' = <<>>
                /\ rev_pc' = "rows"
                /\ UNCHANGED rev_fi
    /\ UNCHANGED <<reports_exists, rev_flat, rev_db, total_rows,
                   rev_files_processed, total_db_rows, rev_result,
                   incorporated, out_fault>>
    /\ RevFrame

\* the flat file of the run with one more line
AppendLine(files, line) ==
    [files EXCEPT ![year_month].lines = Append(@, line)]

\* lines 563-584: the next data line; a blank line is skipped, another is
\* kept for the store and written to the flat file at once
RevCopyRow ==
    /\ rev_pc = "rows"
    /\ LET file == rev_files[rev_fi]
       IN  /\ rev_ri < RowsBeforeError(rev_encoding, file)
           /\ LET row == DecodeRow(rev_encoding, file.lines[rev_ri + 2])
              IN  IF NonBlank(row)
                  THEN /\ db_rows' = Append(db_rows, PadRow(row))
                       /\ rev_flat' = AppendLine(rev_flat,
                                                 filtered_row(PadRow(row)))
                       /\ total_rows' = total_rows + 1
                  ELSE UNCHANGED <<db_rows, rev_flat, total_rows>>
    /\ rev_ri' = rev_ri + 1
    /\ UNCHANGED <<rev_pc, reports_exists, rev_db, rev_fi, rev_encoding,
                   rev_files_processed, total_db_rows, rev_result,
                   incorporated, out_fault>>
    /\ RevFrame

\* the reader raises UnicodeDecodeError on a later chunk of the file: lines
\* 613-616, the file is left where it is
RevDecodeError ==
    /\ rev_pc = "rows"
    /\ LET file == rev_files[rev_fi]
       IN  /\ rev_ri = RowsBeforeError(rev_encoding, file)
           /\ rev_ri < Len(file.lines) - 1
    /\ rev_pc' = RevAfterFile(rev_fi)
    /\ rev_fi' = rev_fi + 1
    /\ UNCHANGED <<reports_exists, rev_flat, rev_db, rev_encoding, rev_ri,
                   db_rows, total_rows, rev_files_processed, total_db_rows,
                   rev_result, incorporated, out_fault>>
    /\ RevFrame

\* a store whose table is made anew by every call
FreshTable(stores) == <<>>

\* line 373: sqlite3.connect(db_path) opens the store of the month with the
\* rows it holds
RevenueTable(stores) == stores[year_month].rows

\* lines 586-608: the rows of the file go to the store (only if there are
\* any), and the file is counted
RevInsertFile ==
    /\ rev_pc = "rows"
    /\ rev_ri = Len(rev_files[rev_fi].lines) - 1
    /\ LET table == RevenueTable(rev_db)
           after == IF db_rows = <<>> THEN table
                    ELSE insert_revenue_data(table, db_rows, date_range[1],
                                             date_range[2],
                                             rev_files[rev_fi].name)
       IN  /\ rev_db' = [rev_db EXCEPT ![year_month].rows = after]
           /\ total_db_rows' = total_db_rows + (Len(after) - Len(table))
    /\ rev_files_processed' = rev_files_processed + 1
    /\ incorporated' = incorporated \cup {rev_fi}
    /\ rev_pc' = RevAfterFile(rev_fi)
    /\ rev_fi' = rev_fi + 1
    /\ UNCHANGED <<reports_exists, rev_flat, rev_encoding, rev_ri, db_rows,
                   total_rows, rev_result, out_fault>>
    /\ RevFrame

\* the end of the with block of line 500, then lines 622-630: statistics,
\* the path is returned
RevReport ==
    /\ rev_pc = "close"
    /\ rev_pc' = "done"
    /\ rev_result' = "path"
    /\ UNCHANGED <<reports_exists, rev_flat, rev_db, rev_fi, rev_encoding,
                   rev_ri, db_rows, total_rows, rev_files_processed,
                   total_db_rows, incorporated, out_fault>>
    /\ RevFrame

\* a later run, with its own date range, in the same month or the next
NextDateRange == <<"2025-02-01", "2025-02-28">>

\* the revenue consolidation is called again over the same directory
RevRerun ==
    /\ rev_pc = "done"
    /\ rev_run = 1
    /\ rev_run' = 2
    /\ rev_flat0' = rev_flat
    /\ rev_db0' = rev_db
    /\ year_month' \in YearMonths
    /\ date_range' = NextDateRange
    /\ rev_pc' = "idle"
    /\ rev_fi' = 0
    /\ rev_encoding' = "none"
    /\ rev_ri' = 0
    /\ db_rows' = <<>>
    /\ total_rows' = 0
    /\ rev_files_processed' = 0
    /\ total_db_rows' = 0
    /\ rev_result' = "running"
    /\ incorporated' = {}
    /\ out_fault' = "none"
    /\ UNCHANGED <<pipeVars, svcVars, mainVars, pathVars, dlVars,
                   reports_exists, rev_flat, rev_db>>

NextRev ==
    \/ RevDiscover
    \/ RevSetup
    \/ RevOpen
    \/ RevCopyRow
    \/ RevDecodeError
    \/ RevInsertFile
    \/ RevReport
    \/ RevRerun

SpecRev == InitRev /\ [][NextRev]_vars


(***************************************************************************)
(* C13 -- phase order of a run.                                            *)
(***************************************************************************)
\* the data rows of the flat file of the run
FlatRows(files) ==
    IF files[year_month].exists /\ files[year_month].lines # <<>>
    THEN Tail(files[year_month].lines) ELSE <<>>

\* the revenue consolidation still has a discovered file to read
RevReading == rev_pc \in {"open", "rows"}

\* C13: while a discovered revenue file is still to be read (or to fail), no
\* data row has been written to the flat file of the run and no row has been
\* inserted into its store
C13_PhaseOrder ==
    RevReading =>
        /\ FlatRows(rev_flat) = <<>>
        /\ rev_db[year_month].rows = rev_db0[year_month].rows


(***************************************************************************)
(* C19 -- the reported counts of a revenue run.                            *)
(***************************************************************************)
\* the non-blank data rows of a revenue file, as its encoding decodes them
RevDataRows(file) ==
    LET enc == FirstEncoding(file)
        rows == [i \in 1..(Len(file.lines) - 1) |->
                    DecodeRow(enc, file.lines[i + 1])]
    IN  SelectSeq(rows, NonBlank)

\* the number of non-blank data rows of the files of S
RECURSIVE RowsOfFiles(_)
RowsOfFiles(S) ==
    IF S = {} THEN 0
    ELSE LET i == CHOOSE j \in S : TRUE
         IN  Len(RevDataRows(rev_files[i])) + RowsOfFiles(S \ {i})

\* C19: at the end of a revenue run, files_processed is at most the number
\* of discovered files and is the number of files read to their end, and the
\* reported row total counts the rows of those files only
C19_NeverOvercount ==
    rev_pc = "done" =>
        /\ rev_files_processed <= Len(rev_files)
        /\ rev_files_processed = Cardinality(incorporated)
        /\ total_rows = RowsOfFiles(incorporated)


(***************************************************************************)
(* The revenue consolidation when the file system refuses an output        *)
(* operation: os.makedirs (line 485), create_database_schema (line 495),   *)
(* open (line 500), writer.writerow (lines 504, 582) and the close at the  *)
(* end of the with block raise OSError or sqlite3.Error.  At most one      *)
(* operation of a run is refused.                                          *)
(***************************************************************************)
SetupStages == {"makedirs", "schema", "open", "header"}

\* lines 483-504 with a refused operation: what the earlier lines did stays,
\* the handler of lines 618-620 logs and returns None
RevSetupFails ==
    /\ rev_pc = "setup"
    /\ out_fault = "none"
    /\ \E stage \in SetupStages :
          /\ out_fault' = stage
          /\ reports_exists' = (stage # "makedirs" \/ reports_exists)
          /\ rev_db' = IF stage \in {"open", "header"}
                       THEN [rev_db EXCEPT ![year_month].exists = TRUE]
                       ELSE rev_db
          /\ rev_flat' = IF stage = "header"
                         THEN [rev_flat EXCEPT ![year_month] =
                                  [exists |-> TRUE, lines |-> <<>>]]
                         ELSE rev_flat
    /\ rev_pc' = "failed"
    /\ rev_result' = "None"
    /\ UNCHANGED <<rev_fi, rev_encoding, rev_ri, db_rows, total_rows,
                   rev_files_processed, total_db_rows, incorporated>>
    /\ RevFrame

\* line 582 raises for a data row: the handler of lines 613-616 takes it for
\* a failure of the source file and goes on with the next file
RevRowWriteFails ==
    /\ rev_pc = "rows"
    /\ out_fault = "none"
    /\ LET file == rev_files[rev_fi]
       IN  /\ rev_ri < RowsBeforeError(rev_encoding, file)
           /\ NonBlank(DecodeRow(rev_encoding, file.lines[rev_ri + 2]))
           /\ db_rows' = Append(db_rows,
                 PadRow(DecodeRow(rev_encoding, file.lines[rev_ri + 2])))
    /\ out_fault' = "row"
    /\ rev_pc' = RevAfterFile(rev_fi)
    /\ rev_fi' = rev_fi + 1
    /\ UNCHANGED <<reports_exists, rev_flat, rev_db, rev_encoding, rev_ri,
                   total_rows, rev_files_processed, total_db_rows, rev_result,
                   incorporated>>
    /\ RevFrame

\* the close of the flat file at the end of the with block raises: lines
\* 618-620 log and return None
RevCloseFails ==
    /\ rev_pc = "close"
    /\ out_fault = "none"
    /\ out_fault' = "close"
    /\ rev_pc' = "failed"
    /\ rev_result' = "None"
    /\ UNCHANGED <<reports_exists, rev_flat, rev_db, rev_fi, rev_encoding,
                   rev_ri, db_rows, total_rows, rev_files_processed,
                   total_db_rows, incorporated>>
    /\ RevFrame

NextRevFault ==
    \/ RevDiscover
    \/ RevSetup
    \/ RevSetupFails
    \/ RevOpen
    \/ RevCopyRow
    \/ RevRowWriteFails
    \/ RevDecodeError
    \/ RevInsertFile
    \/ RevReport
    \/ RevCloseFails
    \/ RevRerun

SpecRevFault == InitRev /\ [][NextRevFault]_vars

\* the revenue consolidation has returned
RevEnded == rev_pc \in {"nofiles", "failed", "done"}

\* the refused operation was on the flat file
FlatFaults == {"open", "header", "row", "close"}

(***************************************************************************)
(* C11 -- all-or-nothing flat output.                                      *)
(***************************************************************************)
\* C11: when an operation on the flat file was refused during a revenue
\* run, the path holds after the run what it held before it (the complete
\* previous file, or no file)
C11_AllOrNothing ==
    (RevEnded /\ out_fault \in FlatFaults) =>
        rev_flat[year_month] = rev_flat0[year_month]

(***************************************************************************)
(* C12 -- output-level failures reach the caller.                          *)
(***************************************************************************)
\* the refused operation was on the reports directory or the flat file
OutputFaults == {"makedirs"} \cup FlatFaults

\* C12: a revenue run in which the reports directory or the flat file could
\* not be created or written raises to its caller, and a run without such a
\* failure does not
C12_OutputFailuresReachCaller ==
    RevEnded =>
        /\ out_fault \in OutputFaults => rev_result = "raised"
        /\ out_fault = "none" => rev_result # "raised"


(***************************************************************************)
(* C14 -- revenue rows accumulate in the store of the month.               *)
(***************************************************************************)
\* the non-blank data rows of a file whose quantity and amounts convert
ConvertibleRows(file) ==
    LET rows == RevDataRows(file)
    IN  SelectSeq([i \in 1..Len(rows) |-> PadRow(rows[i])], CoerceOk)

\* the rows a run is to insert for a file: one per convertible row, with
\* the date range of the run and the name of the file
TaggedRows(file) ==
    LET rows == ConvertibleRows(file)
    IN  [i \in 1..Len(rows) |->
            [values |-> Coerce(rows[i]),
             date_range_begin |-> date_range[1],
             date_range_end |-> date_range[2],
             source_file |-> file.name]]

\* the rows of the processed files from file i on, in the order of the run
RECURSIVE RunRows(_)
RunRows(i) ==
    IF i > Len(rev_files) THEN <<>>
    ELSE (IF i \in incorporated THEN TaggedRows(rev_files[i]) ELSE <<>>)
         \o RunRows(i + 1)

MaxRuns == 3

\* mails/ as a run may find it
MailDirs ==
    {<<>>, <<OutputFile(MailFlatName, <<full_expected_headers>>)>>}
    \cup {<<MailFile(1, row)>> : row \in MainRows}

\* a revenue source file with one data row
RevSource ==
    [name |-> RevenueNames[2], valid |-> TRUE, readable |-> TRUE,
     lines |-> <<rev_full_expected_headers,
                 RevRow(<<"t1">>, <<"2">>, <<"1", ".", "5">>)>>,
     buffered |-> 0]

\* revenues/ as a run may find it
RevenueDirs ==
    LET old == OutputFile(RevenueNames[1], <<expected_headers>>)
    IN  {<<>>, <<old>>, <<RevSource>>, <<old, RevSource>>}

InitKinds ==
    /\ mails_dir \in MailDirs
    /\ revenues_dir \in RevenueDirs
    /\ utility \in UtilityTypes
    /\ pc = IF utility = "mails" THEN "idle" ELSE "off"
    /\ rev_pc = IF utility = "reports" THEN "idle" ELSE "off"
    /\ csv_files = <<>>
    /\ fi = 0
    /\ records = <<>>
    /\ ri = 0
    /\ email_data = <<>>
    /\ files_processed = 0
    /\ clock = NowStart
    /\ folded = <<>>
    /\ flat = <<>>
    /\ db = {}
    /\ run = 1
    /\ first_flat = <<>>
    /\ first_db = {}
    /\ main_pc = "none"
    /\ consolidate_only = TRUE
    /\ outputs_exists = TRUE
    /\ rev_files = <<>>
    /\ has_artists = TRUE
    /\ artists = 0
    /\ force = FALSE
    /\ artist = 0
    /\ downloads = 0
    /\ mails_dir0 = mails_dir
    /\ revenues_dir0 = revenues_dir
    /\ year_month = "2025-01"
    /\ date_range = <<"2025-01-01", "2025-01-31">>
    /\ reports_exists = FALSE
    /\ rev_flat = [m \in YearMonths |-> NoFile]
    /\ rev_db = [m \in YearMonths |-> NoStore]
    /\ rev_run = 1
    /\ rev_flat0 = rev_flat
    /\ rev_db0 = rev_db
    /\ out_fault = "none"
    /\ RevLocals
    /\ SvcIdle /\ PathIdle /\ DlIdle

\* the run of the kind named by utility has returned, and none is going on
KindsEnded ==
    /\ pc \in {"off", "nofiles", "done"}
    /\ rev_pc \in {"off", "nofiles", "done"}

\* the next run is a mailing-list consolidation
StartMails ==
    /\ KindsEnded
    /\ rev_run < MaxRuns
    /\ rev_run' = rev_run + 1
    /\ utility' = "mails"
    /\ pc' = "idle"
    /\ UNCHANGED <<mails_dir, csv_files, fi, records, ri, email_data,
                   files_processed, clock, folded, flat, db, run, first_flat,
                   first_db>>
    /\ UNCHANGED <<main_pc, consolidate_only, outputs_exists, revenues_dir,
                   rev_files, has_artists, artists, force, artist, downloads,
                   mails_dir0, revenues_dir0>>
    /\ UNCHANGED <<svcVars, pathVars, dlVars, reports_exists, rev_pc,
                   year_month, date_range, rev_flat, rev_db, rev_fi,
                   rev_encoding, rev_ri, db_rows, total_rows,
                   rev_files_processed, total_db_rows, rev_result,
                   incorporated, rev_flat0, rev_db0, out_fault>>

\* the next run is a revenue consolidation, in the same month or the next
StartReports ==
    /\ KindsEnded
    /\ rev_run < MaxRuns
    /\ rev_run' = rev_run + 1
    /\ utility' = "reports"
    /\ rev_pc' = "idle"
    /\ year_month' \in YearMonths
    /\ rev_flat0' = rev_flat
    /\ rev_db0' = rev_db
    /\ rev_fi' = 0
    /\ rev_encoding' = "none"
    /\ rev_ri' = 0
    /\ db_rows' = <<>>
    /\ total_rows' = 0
    /\ rev_files_processed' = 0
    /\ total_db_rows' = 0
    /\ rev_result' = "running"
    /\ incorporated' = {}
    /\ UNCHANGED <<main_pc, consolidate_only, outputs_exists, revenues_dir,
                   rev_files, has_artists, artists, force, artist, downloads,
                   mails_dir0, revenues_dir0>>
    /\ UNCHANGED <<pipeVars, svcVars, pathVars, dlVars, reports_exists,
                   date_range, rev_flat, rev_db, out_fault>>

\* between two runs the source files of a kind are removed
RemoveSources ==
    /\ KindsEnded
    /\ \E kind \in UtilityTypes :
          IF kind = "mails"
          THEN mails_dir # <<>> /\ mails_dir' = <<>> /\ UNCHANGED revenues_dir
          ELSE /\ revenues_dir # <<>>
               /\ revenues_dir' = <<>>
               /\ UNCHANGED mails_dir
    /\ UNCHANGED <<csv_files, pc, fi, records, ri, email_data,
                   files_processed, clock, folded, flat, db, run, first_flat,
                   first_db>>
    /\ UNCHANGED <<main_pc, utility, consolidate_only, outputs_exists,
                   rev_files, has_artists, artists, force, artist, downloads,
                   mails_dir0, revenues_dir0>>
    /\ UNCHANGED <<svcVars, extVars>>

NextKinds ==
    \/ Discover
    \/ ReadFile
    \/ FoldRow
    \/ WriteFlat
    \/ InsertDb
    \/ RevDiscover
    \/ RevSetup
    \/ RevOpen
    \/ RevCopyRow
    \/ RevInsertFile
    \/ RevReport
    \/ StartMails
    \/ StartReports
    \/ RemoveSources

SpecKinds == InitKinds /\ [][NextKinds]_vars


(***************************************************************************)
(* C16 -- the zero-work run.                                               *)
(***************************************************************************)
\* what the consolidations write: reports/, the flat files and the stores
Outputs == <<reports_exists, flat, db, rev_flat, rev_db>>

\* the run of the kind named by utility has returned at discovery
ZeroWorkEnded ==
    \/ utility = "mails" /\ pc = "nofiles"
    \/ utility = "reports" /\ rev_pc = "nofiles"

Written ==
    (IF flat # <<>>
     THEN {<<ReportsSubdir, MailFlatName>>, <<ReportsSubdir, MailDbName>>}
     ELSE {})
    \cup {<<ReportsSubdir, RevFlatName(m)>> :
             m \in {n \in YearMonths : rev_flat[n].exists}}
    \cup {<<ReportsSubdir, RevDbName(m)>> :
             m \in {n \in YearMonths : rev_db[n].exists}}

\* the paths of the source files the last discovery of each kind has found
Discovered ==
    {<<MailsSubdir, csv_files[i].name>> : i \in 1..Len(csv_files)}
    \cup {<<RevenuesSubdir, rev_files[i].name>> : i \in 1..Len(rev_files)}

\* the names of the consolidated flat files
FlatNames == {MailFlatName} \cup {RevFlatName(m) : m \in YearMonths}

\* C17: no source file a discovery of either kind has found is a path a
\* consolidation run has written, nor carries the name of a consolidated
\* flat file
C17_NoSelfConsumption ==
    \A p \in Discovered : p \notin Written /\ p[2] \notin FlatNames

\* C17: a revenue run has discovered its source file in a revenues/ that
\* also holds a consolidated report, after runs of both kinds have written
\* their outputs
C17_Witness ==
    /\ utility = "reports"
    /\ rev_pc = "setup"
    /\ Len(rev_files) = 1
    /\ Len(revenues_dir) = 2
    /\ flat # <<>>
    /\ \E m \in YearMonths : rev_flat[m].exists


(***************************************************************************)
(* The merge step by step (specification SpecMerge): rows of one identity  *)
(* with equal, earlier and later dates, a second identity whose date does  *)
(* not parse and whose count is not a number, and a row without identity.  *)
(***************************************************************************)
MergePool ==
    { Row(<<"a">>, <<"Ann">>, <<"Jan 01 2025 10:00 AM UTC">>, <<"3">>),
      Row(<<"a">>, <<"Amy">>, <<"Jan 01 2025 10:00 AM UTC">>, <<"1">>),
      Row(<<"A", " ">>, <<"Late">>, <<"Jan 05 2025 04:00 PM UTC">>, <<" ", "2">>),
      Row(<<"b">>, <<"Bad">>, <<"garbage">>, <<"x">>),
      Row(<<" ">>, <<"Nobody">>, <<"Jan 01 2025 10:00 AM UTC">>, <<"3">>) }

InitMerge ==
    /\ \E n \in 1..MaxFiles :
         \E rows \in SeqsUpTo(MergePool, MaxRows) :
            \E c \in Cuts(Len(rows), n) :
               mails_dir = DirOf(rows, n, c, [i \in 1..n |-> "ok"])
    /\ csv_files = <<>>
    /\ pc = "idle"
    /\ fi = 0
    /\ records = <<>>
    /\ ri = 0
    /\ email_data = <<>>
    /\ files_processed = 0
    /\ clock = NowStart
    /\ folded = <<>>
    /\ flat = <<>>
    /\ db = {}
    /\ run = 1
    /\ first_flat = <<>>
    /\ first_db = {}
    /\ SvcIdle
    /\ ExtIdle
    /\ MainIdle

SpecMerge == InitMerge /\ [][Next]_vars

(***************************************************************************)
(* C21 -- the merge step on a repeated identity.                           *)
(***************************************************************************)
\* the row the next fold step takes, and its identity
FoldedRow == ProjectRow(records[ri])

FoldedEmail == Identity(FoldedRow[1])

\* the next step folds a row whose identity has an entry
RepeatedIdentity ==
    pc = "fold" /\ FoldedEmail # <<>> /\ HasKey(email_data, FoldedEmail)

\* C21: a fold step on an identity that has an entry keeps every other
\* entry; the entry takes the row and its parsed date when that date is
\* strictly earlier than the entry's, and keeps its own otherwise; in both
\* cases its total grows by the purchase count of the row
C21_MergeStep ==
    [][RepeatedIdentity =>
          LET i == KeyIndex(email_data, FoldedEmail)
              old == email_data[i]
              new == email_data'[i]
              h == folded'[Len(folded')]
          IN  /\ Len(email_data') = Len(email_data)
              /\ \A j \in 1..Len(email_data) :
                    j # i => email_data'[j] = email_data[j]
              /\ new.email = old.email
              /\ IF h.parsed_date < old.parsed_date
                 THEN new.record = FoldedRow /\ new.parsed_date = h.parsed_date
                 ELSE new.record = old.record
                      /\ new.parsed_date = old.parsed_date
              /\ new.total_purchases
                    = old.total_purchases + ParsePurchases(FoldedRow[8])]_vars

\* C21: Ann was folded first, then Amy with the same date and one purchase:
\* Ann is still the winner and the total is four
C21_Witness ==
    /\ Len(folded) = 2
    /\ folded[1].row[2] = <<"Ann">>
    /\ folded[2].row[2] = <<"Amy">>
    /\ Len(email_data) = 1
    /\ email_data[1].record[2] = <<"Ann">>
    /\ email_data[1].total_purchases = 4


(***************************************************************************)
(* C22 -- the content of the mailing-list flat file.                       *)
(***************************************************************************)
\* the identities folded by the run
FoldedIdentities == {folded[k].email : k \in 1..Len(folded)}

\* the entry of the merge map for an identity
EntryOf(email) == email_data[KeyIndex(email_data, email)]

\* the flat file has been written
FlatWritten == pc \in {"write_db", "done"}

\* C22: the flat file is the canonical header followed by exactly one row
\* per merged identity, in non-decreasing order of parsed date; column 0 of
\* a row is the normalized identity, column 7 the total of the identity and
\* columns 1 to 6 the values of the winning row
C22_FlatContent ==
    FlatWritten =>
        /\ flat[1] = full_expected_headers
        /\ Len(flat) - 1 = Cardinality(FoldedIdentities)
        /\ {flat[l][1] : l \in 2..Len(flat)} = FoldedIdentities
        /\ \A l \in 2..Len(flat) :
              LET e == EntryOf(flat[l][1])
              IN  /\ flat[l][1] = Identity(flat[l][1])
                  /\ flat[l][8] = IntText(SumNum(folded, flat[l][1]))
                  /\ \A col \in 2..7 : flat[l][col] = e.record[col]
                  /\ \A m \in (l + 1)..Len(flat) :
                        e.parsed_date <= EntryOf(flat[m][1]).parsed_date

\* C22: two identities were merged, the flat file lists the one folded last
\* first, with its total in place of the count of its row
C22_Witness ==
    /\ pc = "done"
    /\ Len(email_data) = 2
    /\ Len(flat) = 3
    /\ flat[2][1] = email_data[2].email
    /\ flat[2][8] # email_data[2].record[8]
    /\ flat[3][1] # email_data[1].record[1]

(***************************************************************************)
(* C25 -- purchase conservation.                                           *)
(***************************************************************************)
\* sum(data['total_purchases'] for data in email_data.values())
RECURSIVE TotalPurchases(_)
TotalPurchases(data) ==
    IF data = <<>> THEN 0
    ELSE Head(data).total_purchases + TotalPurchases(Tail(data))

\* the sum of the purchase counts of the rows folded so far
RECURSIVE FoldedPurchases(_)
FoldedPurchases(hist) ==
    IF hist = <<>> THEN 0
    ELSE ParsePurchases(Head(hist).row[8]) + FoldedPurchases(Tail(hist))

\* C25: at every point of the merge the totals of the entries add up to the
\* purchase counts of the rows with an identity folded so far, and every
\* folded row has an identity
C25_PurchaseConservation ==
    /\ TotalPurchases(email_data) = FoldedPurchases(folded)
    /\ \A k \in 1..Len(folded) : folded[k].email # <<>>

\* C25: a run has ended over a row without identity and rows of one
\* identity, one of which did not replace the winner; the total is five
C25_Witness ==
    /\ pc = "done"
    /\ \E p \in Positions : BlankText(RowAt(p)[1])
    /\ Len(email_data) = 1
    /\ Len(folded) = 2
    /\ TotalPurchases(email_data) = 5


(***************************************************************************)
(* Two mailing-list runs into the same store (specification SpecStore):    *)
(* between the runs glob.glob may list the files in another order, and a   *)
(* file may be gone.                                                       *)
(***************************************************************************)
StorePool ==
    MainRows \cup
    {Row(<<"b">>, <<"Bob">>, <<"Jan 05 2025 10:00 AM UTC", " ">>, <<"2">>)}

InitStore ==
    /\ \E n \in 1..MaxFiles :
         \E rows \in SeqsUpTo(StorePool, MaxRows) :
            \E c \in Cuts(Len(rows), n) :
               mails_dir = DirOf(rows, n, c, [i \in 1..n |-> "ok"])
    /\ csv_files = <<>>
    /\ pc = "idle"
    /\ fi = 0
    /\ records = <<>>
    /\ ri = 0
    /\ email_data = <<>>
    /\ files_processed = 0
    /\ clock = NowStart
    /\ folded = <<>>
    /\ flat = <<>>
    /\ db = {}
    /\ run = 1
    /\ first_flat = <<>>
    /\ first_db = {}
    /\ SvcIdle
    /\ ExtIdle
    /\ MainIdle

\* the directory in reverse order
Reversed(dir) == [i \in 1..Len(dir) |-> dir[Len(dir) + 1 - i]]

\* the directory as the second run may list it
LaterListings(dir) ==
    {dir, Reversed(dir), SubSeq(dir, 1, Len(dir) - 1)}

\* consolidation is run again into the same store
RerunOver ==
    /\ pc = "done"
    /\ run = 1
    /\ run' = 2
    /\ first_flat' = flat
    /\ first_db' = db
    /\ mails_dir' \in LaterListings(mails_dir)
    /\ pc' = "idle"
    /\ UNCHANGED <<csv_files, fi, records, ri, email_data, files_processed,
                   clock, folded, flat, db>>
    /\ UNCHANGED <<svcVars, mainVars, extVars>>

NextStore ==
    \/ Discover
    \/ ReadFile
    \/ FoldRow
    \/ WriteFlat
    \/ InsertDb
    \/ RerunOver

SpecStore == InitStore /\ [][NextStore]_vars

(***************************************************************************)
(* C23 -- the key of the mailing-list store.                               *)
(***************************************************************************)
\* the rows of the store written with the file list of the current run
RowsOfRun == {r \in db : r.source_file = JoinNames(csv_files)}

\* the second run has ended over another list of files than the first
OtherList ==
    /\ run = 2
    /\ pc = "done"
    /\ \A r \in first_db : r.source_file # JoinNames(csv_files)

InitCoerce == InitMerge \/ InitRev

NextCoerce ==
    \/ Discover
    \/ ReadFile
    \/ FoldRow
    \/ WriteFlat
    \/ InsertDb
    \/ RevDiscover
    \/ RevSetup
    \/ RevOpen
    \/ RevCopyRow
    \/ RevDecodeError
    \/ RevInsertFile
    \/ RevReport
    \/ RevRerun

SpecCoerce == InitCoerce /\ [][NextCoerce]_vars

(***************************************************************************)
(* C24 -- a row whose numeric field does not convert.                      *)
(***************************************************************************)
\* the rows the revenue run has added to the store of its month
AddedRows ==
    SubSeq(rev_db[year_month].rows, Len(rev_db0[year_month].rows) + 1,
           Len(rev_db[year_month].rows))

\* the values of the added rows that came from a file
AddedFrom(file) ==
    LET FromFile(r) == r.source_file = file.name
        mine == SelectSeq(AddedRows, FromFile)
    IN  [k \in 1..Len(mine) |-> mine[k].values]

\* the entries of the merge map whose purchase count converts
InsertableEntries ==
    {i \in 1..Len(email_data) : ~InsertRaises(email_data[i])}

\* C24: a finished revenue run has returned its path and added, for every
\* processed file, the rows of the file that convert, all of them and in
\* order, and counts as inserted the rows it added; a finished first
\* mailing-list run holds one row for every identity whose winner's
\* purchase count converts and none for the others
C24_RowLevelCoercion ==
    /\ rev_pc = "done" =>
          /\ rev_result = "path"
          /\ total_db_rows = Len(AddedRows)
          /\ \A i \in incorporated :
                LET rows == ConvertibleRows(rev_files[i])
                IN  AddedFrom(rev_files[i])
                       = [k \in 1..Len(rows) |-> Coerce(rows[k])]
    /\ pc = "done" =>
          /\ {r.email : r \in db}
                = {email_data[i].email : i \in InsertableEntries}
          /\ Cardinality(db) = Cardinality(InsertableEntries)

\* C24: a revenue run has ended over a file whose first row does not
\* convert and whose second row does, and has inserted the second
C24_Witness ==
    /\ rev_pc = "done"
    /\ rev_run = 1
    /\ total_db_rows = 1
    /\ \E i \in incorporated :
          LET rows == RevDataRows(rev_files[i])
          IN  /\ Len(rows) = 2
              /\ ~CoerceOk(PadRow(rows[1]))
              /\ CoerceOk(PadRow(rows[2]))


(***************************************************************************)
(* C29 -- the two sinks of a revenue run.                                  *)
(***************************************************************************)
\* the lines the flat file is to hold for the processed files from file i
\* on: one per non-blank data row, in the order of the run
RECURSIVE SourceLines(_)
SourceLines(i) ==
    IF i > Len(rev_files) THEN <<>>
    ELSE (IF i \in incorporated
          THEN LET rows == RevDataRows(rev_files[i])
               IN  [k \in 1..Len(rows) |-> filtered_row(PadRow(rows[k]))]
          ELSE <<>>)
         \o SourceLines(i + 1)

\* C29: at the end of a revenue run the data lines of the flat file are the
\* rows of the files read to their end, the rows the run has inserted are
\* the convertible ones among the same rows, and a file that failed partway
\* has a row in neither
C29_SinksAgree ==
    rev_pc = "done" =>
        /\ FlatRows(rev_flat) = SourceLines(1)
        /\ AddedRows = RunRows(1)


(***************************************************************************)
(* The two utilities started again and again over the same <outputs>, one  *)
(* while the other is still consolidating or after it has returned         *)
(* (specification SpecIsolate).  A start is main up to the call of         *)
(* consolidate_csv_files: clear_outputs_directory, then the download of    *)
(* one artist's file unless the run only consolidates.                     *)
(***************************************************************************)
\* the mailing-list consolidation is not going on
MailsEnded == pc \in {"off", "nofiles", "done"}

\* the revenue consolidation is not going on
ReportsEnded == rev_pc \in {"off", "nofiles", "done"}

\* bandcamp_mails.py lines 258-270: the keywords 'mailing', 'mail' and
\* 'consolidated_bandcamp_mailing' on the lower-case names of reports/
IsMailingName(name) ==
    name[1] \in {"consolidated_bandcamp_mailing_list",
                 "bandcamp_mailing_lists", "mailing_list"}

\* bandcamp_mails.py, main lines 126-148: mails/ is removed, and the files of
\* reports/ whose name holds a mailing keyword, each inside its own try;
\* then a file is downloaded or not, and the consolidation is called
MainMails ==
    /\ MailsEnded
    /\ rev_run < MaxRuns
    /\ rev_run' = rev_run + 1
    /\ utility' = "mails"
    /\ \E left \in Rmtree(mails_dir) :
          mails_dir' \in {left} \cup DownloadMails(left, 1)
    /\ flat' \in (IF IsMailingName(MailFlatName) THEN {<<>>, flat}
                  ELSE {flat})
    /\ db' \in (IF IsMailingName(MailDbName) THEN {{}, db} ELSE {db})
    /\ \A m \in YearMonths :
          ~IsMailingName(RevFlatName(m)) /\ ~IsMailingName(RevDbName(m))
    /\ pc' = "idle"
    /\ UNCHANGED <<csv_files, fi, records, ri, email_data, files_processed,
                   clock, folded, run, first_flat, first_db>>
    /\ UNCHANGED <<main_pc, consolidate_only, outputs_exists, revenues_dir,
                   rev_files, has_artists, artists, force, artist, downloads,
                   mails_dir0, revenues_dir0>>
    /\ UNCHANGED <<svcVars, pathVars, dlVars, reports_exists, rev_pc,
                   year_month, date_range, rev_flat, rev_db, rev_fi,
                   rev_encoding, rev_ri, db_rows, total_rows,
                   rev_files_processed, total_db_rows, rev_result,
                   incorporated, rev_flat0, rev_db0, out_fault>>

\* bandcamp_reports.py, main lines 158-178: revenues/ and reports/ are
\* removed, each by a shutil.rmtree inside a try (a refused rmtree of
\* reports/ leaves it as it is); then a file is downloaded or not, and the
\* consolidation is called
MainReports ==
    /\ ReportsEnded
    /\ rev_run < MaxRuns
    /\ rev_run' = rev_run + 1
    /\ utility' = "reports"
    /\ \E left \in Rmtree(revenues_dir) :
          revenues_dir' \in
              {left} \cup (IF HasName(left, RevSource.name) THEN {}
                           ELSE {Append(left, RevSource)})
    /\ \E removed \in BOOLEAN :
          IF removed
          THEN /\ reports_exists' = FALSE
               /\ flat' = <<>>
               /\ db' = {}
               /\ rev_flat' = [m \in YearMonths |-> NoFile]
               /\ rev_db' = [m \in YearMonths |-> NoStore]
          ELSE UNCHANGED <<reports_exists, flat, db, rev_flat, rev_db>>
    /\ rev_pc' = "idle"
    /\ rev_flat0' = rev_flat'
    /\ rev_db0' = rev_db'
    /\ rev_fi' = 0
    /\ rev_encoding' = "none"
    /\ rev_ri' = 0
    /\ db_rows' = <<>>
    /\ total_rows' = 0
    /\ rev_files_processed' = 0
    /\ total_db_rows' = 0
    /\ rev_result' = "running"
    /\ incorporated' = {}
    /\ UNCHANGED <<mails_dir, csv_files, pc, fi, records, ri, email_data,
                   files_processed, clock, folded, run, first_flat,
                   first_db>>
    /\ UNCHANGED <<main_pc, consolidate_only, outputs_exists, rev_files,
                   has_artists, artists, force, artist, downloads,
                   mails_dir0, revenues_dir0>>
    /\ UNCHANGED <<svcVars, pathVars, dlVars, year_month, date_range,
                   out_fault>>

NextIsolate ==
    \/ Discover
    \/ ReadFile
    \/ FoldRow
    \/ WriteFlat
    \/ InsertDb
    \/ RevDiscover
    \/ RevSetup
    \/ RevOpen
    \/ RevCopyRow
    \/ RevInsertFile
    \/ RevReport
    \/ MainMails
    \/ MainReports

SpecIsolate == InitKinds /\ [][NextIsolate]_vars

(***************************************************************************)
(* C26 -- a run of one kind and the files of the other.                    *)
(***************************************************************************)
\* a step of the mailing-list utility
MailsStep == <<pc, fi, ri>>' # <<pc, fi, ri>>

\* a step of the revenue utility
ReportsStep == <<rev_pc, rev_fi, rev_ri>>' # <<rev_pc, rev_fi, rev_ri>>

\* C26: no step of a mailing-list run, its clearing step included, changes
\* the revenue source directory, flat files or stores, and no step of a
\* revenue run changes the mailing-list source directory, flat file or
\* store, whether the other utility has returned or is still running
C26_CrossKindIsolation ==
    [][/\ MailsStep => UNCHANGED <<revenues_dir, rev_flat, rev_db>>
       /\ ReportsStep => UNCHANGED <<mails_dir, flat, db>>]_vars


(***************************************************************************)
(* C27 -- the running flag while a run is going on.                        *)
(***************************************************************************)
\* the threads that start_*_utility has started and that have not reached
\* the end of run_in_thread
ActiveThreads == {t \in 1..Len(threads) : threads[t].tpc # "end"}

\* C27: while a thread started for a kind has not finished, a status read
\* of the kind gives running = True
C27_RunningReflectsActivity ==
    \A t \in ActiveThreads : get_utility_status(threads[t].kind).running


(***************************************************************************)
(* The service when every started thread goes on running and the utility   *)
(* it calls returns or raises (specification SpecSvcFair).                 *)
(***************************************************************************)
SpecSvcFair ==
    /\ InitSvc
    /\ [][NextSvc]_vars
    /\ WF_vars(SetRunning)
    /\ WF_vars(ResetCompleted)
    /\ WF_vars(ResetPdfFilename)
    /\ WF_vars(SetOutputDirectory)
    /\ WF_vars(RunUtility)
    /\ WF_vars(SetCompleted)
    /\ WF_vars(SetCompletedOnError)
    /\ WF_vars(ClearRunning)

(***************************************************************************)
(* C28 -- the status protocol of a background run.                         *)
(***************************************************************************)
\* the utility call of a thread of the kind has returned or raised
UtilityEnded(kind) ==
    \E t \in 1..Len(threads) :
       threads[t].kind = kind /\ threads[t].tpc \in {"L52", "L55"}

\* a status read of the kind gives running = False and completed = True
FinishedStatus(kind) ==
    /\ ~get_utility_status(kind).running
    /\ get_utility_status(kind).completed

\* a status read of the kind gives running = True and completed = True
RunningAndCompleted(kind) ==
    /\ get_utility_status(kind).running
    /\ get_utility_status(kind).completed

\* the first half of C28: once the utility call of a run has returned or
\* raised, the status of its kind comes to running = False and
\* completed = True
EventuallyFinished ==
    \A kind \in UtilityTypes : UtilityEnded(kind) ~> FinishedStatus(kind)

\* C28: once the utility call of a run has returned or raised, the status
\* of its kind comes to running = False and completed = True, and no status
\* read gives running = True together with completed = True
C28_StatusProtocol ==
    /\ EventuallyFinished
    /\ [](\A kind \in UtilityTypes : ~RunningAndCompleted(kind))


(***************************************************************************)
(* C30 -- the mailing statistics of an artist (artist_service.py).         *)
(***************************************************************************)
\* the artists whose mailing lists are downloaded
ArtistNames == {"a", "b", "c", "d"}

\* f"mailing_list-{artist_name}.csv"
MailingListName(artist_name) ==
    <<"mailing_list", "-" \o artist_name, ".csv">>

\* the WHERE clause of the query: source_file = ?
LookupRows(table, artist_name) ==
    {r \in table : r.source_file = MailingListName(artist_name)}

\* lines 136-174: the subscribers counted for the artist, or None
get_artist_mailing_stats(table, artist_name) ==
    LET rows == LookupRows(table, artist_name)
        emails == {r.email : r \in rows}
    IN  [found |-> Cardinality(emails) > 0,
         unique_subscribers |-> Cardinality(emails)]

\* the identities of the rows of a file
SubscribersOf(file) ==
    LET res == process_single_csv(file)
    IN  {Identity(ProjectRow(res.records[k])[1]) :
            k \in 1..Len(res.records)} \ {<<>>}

\* the artist a file was downloaded for
ArtistsOf(file) ==
    {a \in ArtistNames : MailingListName(a) = file.name}

\* C30: after a consolidation, the statistics of the artist of every
\* discovered file find the store rows of the subscribers of that file
C30_ArtistLookup ==
    pc = "done" =>
        \A i \in 1..Len(csv_files) :
           \A a \in ArtistsOf(csv_files[i]) :
              /\ ArtistsOf(csv_files[i]) # {}
              /\ \A e \in SubscribersOf(csv_files[i]) :
                    (\E r \in db : r.email = e) =>
                        /\ get_artist_mailing_stats(db, a).found
                        /\ \E r \in LookupRows(db, a) : r.email = e

===========================================================================
